---- MODULE Spec2Model ----
(***************************************************************************)
(* docker-stats: the stats aggregation engine.                             *)
(*                                                                         *)
(*   internal/docker/client.go  Client.GetContainerStats (fork-join over   *)
(*                              one goroutine per listed container),       *)
(*                              getContainerStats, calculateCPUPercent,    *)
(*                              trimContainerName, SortContainers          *)
(*   main.go (unnamed/part_000) statsModel: the bubbletea session          *)
(*   internal/ui/app.go         ui.App: the tview session                  *)
(*                                                                         *)
(* Strings the code slices or compares (container IDs, names) are          *)
(* sequences of byte codes.  A float64 percentage is an integer number of  *)
(* 1/U64 percent (see Float).  CPULimit is the pair <<numerator,           *)
(* denominator>> of the float64 division.                                  *)
(***************************************************************************)
EXTENDS Integers, Sequences, FiniteSets, TLC

\* ------------------------------------------------------------------ bounds

\* The most containers one ContainerList call returns.
MaxContainers == 2

\* The most fetchContainers commands bubbletea runs at once.
MaxInFlight == 2

\* The most functions waiting in tview's update queue when QueueUpdateDraw
\* does not wait for them (where it waits, each goroutine has at most one).
MaxQueue == 1

\* ------------------------------------------------------- program constants

\* cont.ID[:12]
ShortIDLen == 12
\* name[0] == '/'
Slash == 47
\* float64(NanoCPUs) / 1e9
NanoPerCPU == 1000000000

\* SortField (iota)
SortByName == 0
SortByCPU == 1
SortByMemory == 2
SortByNetIO == 3
SortByBlockIO == 4
SortByImageSize == 5

\* ------------------------------------------------------------ the runtime

\* What the daemon can answer.  Container k of a listing has a full-length
\* ID (longer than the short form), its own names, image and payloads.
FullID(k) == [i \in 1..(ShortIDLen + 2) |-> IF i = 1 THEN k ELSE 0]

NamesOf(k) ==
    CASE k = 1 -> << <<Slash, 119>> >>
      [] k = 2 -> << <<100, 98>>, <<Slash, 120>> >>
      [] k = 3 -> << <<>> >>
      [] OTHER -> << >>

ImageOf(k) ==
    CASE k = 1 -> "nginx"
      [] k = 2 -> "redis"
      [] OTHER -> "busybox"

LifecycleStates == {"running", "exited"}

Summary(k, st) ==
    [ID |-> FullID(k), Names |-> NamesOf(k), Image |-> ImageOf(k),
     State |-> st, SizeRw |-> 10 * k]

\* The listings ContainerList can return: with All = FALSE the daemon lists
\* running containers only.
Listings(showAll) ==
    UNION {
      { [k \in 1..n |-> Summary(k, sts[k])] :
          sts \in { f \in [1..n -> LifecycleStates] :
                      showAll \/ \A k \in 1..n : f[k] = "running" } } :
      n \in 0..MaxContainers }

ImageSizeOf(k) == 100 * k

HostConfigOf(k) ==
    CASE k = 1 -> [NanoCPUs |-> 1500000000, CPUQuota |-> 0, CPUPeriod |-> 0]
      [] k = 2 -> [NanoCPUs |-> 0, CPUQuota |-> 50000, CPUPeriod |-> 100000]
      [] OTHER -> [NanoCPUs |-> 0, CPUQuota |-> 0, CPUPeriod |-> 0]

\* One stats payload (StatsJSON) per container.
PayloadOf(k) ==
    CASE k = 1 ->
           [TotalUsage |-> 300, PreTotalUsage |-> 100,
            SystemUsage |-> 1000, PreSystemUsage |-> 600,
            OnlineCPUs |-> 2, PercpuLen |-> 0,
            MemUsage |-> 50, MemLimit |-> 200,
            Networks |-> << [RxBytes |-> 10, TxBytes |-> 5],
                            [RxBytes |-> 1, TxBytes |-> 2] >>,
            Blkio |-> << [Op |-> "Read", Value |-> 7],
                         [Op |-> "write", Value |-> 3],
                         [Op |-> "READ", Value |-> 100],
                         [Op |-> "sync", Value |-> 9] >>,
            Pids |-> 4]
      [] k = 2 ->
           [TotalUsage |-> 150, PreTotalUsage |-> 100,
            SystemUsage |-> 1000, PreSystemUsage |-> 800,
            OnlineCPUs |-> 0, PercpuLen |-> 4,
            MemUsage |-> 60, MemLimit |-> 0,
            Networks |-> << >>,
            Blkio |-> << [Op |-> "Write", Value |-> 8] >>,
            Pids |-> 1]
      [] OTHER ->
           [TotalUsage |-> 100, PreTotalUsage |-> 100,
            SystemUsage |-> 500, PreSystemUsage |-> 400,
            OnlineCPUs |-> 0, PercpuLen |-> 0,
            MemUsage |-> 10, MemLimit |-> 40,
            Networks |-> << [RxBytes |-> 3, TxBytes |-> 3] >>,
            Blkio |-> << >>,
            Pids |-> 2]

\* ------------------------------------------------------------- derivation

\* uint64 arithmetic: the counters are unsigned, a difference wraps.  The
\* model's uint64 has 10 bits.
U64 == 1024
U64Sub(a, b) == (a - b + U64) % U64

\* float64(a) / float64(b) for two uint64 values, in units of 1/U64: as in
\* float64, the quotient of a non-zero a is never 0.
Float(a, b) == (a * U64) \div b

\* The per-core entries never counted: one core when OnlineCPUs is 0.
calculateCPUPercentOneCore(p) ==
    LET cpuDelta == U64Sub(p.TotalUsage, p.PreTotalUsage)
        systemDelta == U64Sub(p.SystemUsage, p.PreSystemUsage)
        cpuCount == IF p.OnlineCPUs # 0 THEN p.OnlineCPUs ELSE 1
    IN  IF systemDelta > 0 /\ cpuDelta > 0
        THEN Float(cpuDelta, systemDelta) * cpuCount * 100
        ELSE 0

calculateCPUPercent(p) ==
    LET cpuDelta == U64Sub(p.TotalUsage, p.PreTotalUsage)
        systemDelta == U64Sub(p.SystemUsage, p.PreSystemUsage)
        cpuCount == IF p.OnlineCPUs # 0 THEN p.OnlineCPUs
                    ELSE IF p.PercpuLen # 0 THEN p.PercpuLen
                    ELSE 1
    IN  IF systemDelta > 0 /\ cpuDelta > 0
        THEN Float(cpuDelta, systemDelta) * cpuCount * 100
        ELSE 0

trimContainerName(names) ==
    IF Len(names) = 0 THEN << >>
    ELSE LET name == names[1]
         IN  IF Len(name) > 0 /\ name[1] = Slash THEN Tail(name) ELSE name

RECURSIVE SumNet(_, _)
SumNet(nets, field) ==
    IF nets = << >> THEN 0
    ELSE (IF field = "rx" THEN Head(nets).RxBytes ELSE Head(nets).TxBytes)
         + SumNet(Tail(nets), field)

\* switch blkStats.Op { case "read", "Read": ...; case "write", "Write": ... }
RECURSIVE SumBlk(_, _)
SumBlk(entries, tags) ==
    IF entries = << >> THEN 0
    ELSE (IF Head(entries).Op \in tags THEN Head(entries).Value ELSE 0)
         + SumBlk(Tail(entries), tags)

BlkReadTags == {"read", "Read"}
BlkWriteTags == {"write", "Write"}

NoLimit == <<0, 1>>

\* The quota/period pair looked at before NanoCPUs.
CPULimitOfQuotaFirst(hc) ==
    IF hc.CPUQuota > 0 /\ hc.CPUPeriod > 0 THEN <<hc.CPUQuota, hc.CPUPeriod>>
    ELSE IF hc.NanoCPUs > 0 THEN <<hc.NanoCPUs, NanoPerCPU>>
    ELSE NoLimit

\* getContainerStats, lines 203-211: a float64 quotient is the pair of its
\* numerator and denominator.
CPULimitOf(hc) ==
    IF hc.NanoCPUs > 0 THEN <<hc.NanoCPUs, NanoPerCPU>>
    ELSE IF hc.CPUQuota > 0 /\ hc.CPUPeriod > 0 THEN <<hc.CPUQuota, hc.CPUPeriod>>
    ELSE NoLimit

\* A limit of 0 counted as a full memory.
MemPercentFullWithoutLimit(usage, limit) ==
    IF limit > 0 THEN Float(usage, limit) * 100 ELSE 100 * U64

\* getContainerStats, lines 237-239: the memory percentage.
MemPercentOf(usage, limit) ==
    IF limit > 0 THEN Float(usage, limit) * 100 ELSE 0

\* The zero value of container.HostConfig, and of an inspect answer.
ZeroHostConfig == [NanoCPUs |-> 0, CPUQuota |-> 0, CPUPeriod |-> 0]
NoInspect == [err |-> FALSE, HostConfig |-> ZeroHostConfig]

\* The zero value of StatsJSON.
ZeroStatsJSON ==
    [TotalUsage |-> 0, PreTotalUsage |-> 0, SystemUsage |-> 0, PreSystemUsage |-> 0,
     OnlineCPUs |-> 0, PercpuLen |-> 0, MemUsage |-> 0, MemLimit |-> 0,
     Networks |-> << >>, Blkio |-> << >>, Pids |-> 0]

\* The zero value of ContainerStats.
ZeroStats ==
    [ID |-> << >>, Name |-> << >>, Image |-> "", State |-> "",
     CPUPercent |-> 0, CPULimit |-> NoLimit,
     MemUsage |-> 0, MemLimit |-> 0, MemPercent |-> 0,
     NetRx |-> 0, NetTx |-> 0, BlockRead |-> 0, BlockWrite |-> 0,
     PIDs |-> 0, ImageSize |-> 0, ContainerSize |-> 0]

\* getContainerStats, lines 183-193: the identity fields from the list entry.
BaseStats(cont) ==
    [ZeroStats EXCEPT !.ID = SubSeq(cont.ID, 1, ShortIDLen),
                      !.Name = trimContainerName(cont.Names),
                      !.Image = cont.Image,
                      !.State = cont.State,
                      !.ContainerSize = cont.SizeRw]

\* getContainerStats, lines 232-259: the live metrics from a decoded payload.
WithLiveStats(stats, p) ==
    [stats EXCEPT !.CPUPercent = calculateCPUPercent(p),
                  !.MemUsage = p.MemUsage,
                  !.MemLimit = p.MemLimit,
                  !.MemPercent = MemPercentOf(p.MemUsage, p.MemLimit),
                  !.NetRx = SumNet(p.Networks, "rx"),
                  !.NetTx = SumNet(p.Networks, "tx"),
                  !.BlockRead = SumBlk(p.Blkio, BlkReadTags),
                  !.BlockWrite = SumBlk(p.Blkio, BlkWriteTags),
                  !.PIDs = p.Pids]

\* ------------------------------------------------------------------ sorter

\* Go's < on strings: bytewise lexicographic.
RECURSIVE StrLess(_, _)
StrLess(a, b) ==
    IF b = << >> THEN FALSE
    ELSE IF a = << >> THEN TRUE
    ELSE IF a[1] # b[1] THEN a[1] < b[1]
    ELSE StrLess(Tail(a), Tail(b))

U64Add(a, b) == (a + b) % U64

\* SortContainers, lines 297-313: the switch on field.
FieldLess(a, b, field) ==
    CASE field = SortByName -> StrLess(a.Name, b.Name)
      [] field = SortByCPU -> a.CPUPercent < b.CPUPercent
      [] field = SortByMemory -> a.MemPercent < b.MemPercent
      [] field = SortByNetIO -> U64Add(a.NetRx, a.NetTx) < U64Add(b.NetRx, b.NetTx)
      [] field = SortByBlockIO ->
           U64Add(a.BlockRead, a.BlockWrite) < U64Add(b.BlockRead, b.BlockWrite)
      [] field = SortByImageSize -> a.ImageSize < b.ImageSize
      [] OTHER -> StrLess(a.Name, b.Name)

\* A comparator that forgets the direction.
SortLessAscendingOnly(a, b, field, ascending) == FieldLess(a, b, field)

\* lines 314-317: the comparator handed to sort.Slice.
SortLess(a, b, field, ascending) ==
    IF ascending THEN FieldLess(a, b, field) ELSE ~FieldLess(a, b, field)

\* A swap that loses the entry it moves away.
SwapAtOverwrites(s, i, j) == [s EXCEPT ![i] = s[j]]

SwapAt(s, i, j) == [s EXCEPT ![i] = s[j], ![j] = s[i]]

\* An inner loop that stops after one exchange.
SiftDownOnce(s, j, field, ascending) ==
    IF j > 1 /\ SortLess(s[j], s[j - 1], field, ascending)
    THEN SwapAt(s, j, j - 1)
    ELSE s

\* sort.Slice on at most 12 elements is an insertion sort:
\*   for i := a + 1; i < b; i++ {
\*       for j := i; j > a && less(j, j-1); j-- { swap(j, j-1) } }
RECURSIVE SiftDown(_, _, _, _)
SiftDown(s, j, field, ascending) ==
    IF j > 1 /\ SortLess(s[j], s[j - 1], field, ascending)
    THEN SiftDown(SwapAt(s, j, j - 1), j - 1, field, ascending)
    ELSE s

RECURSIVE InsertionSort(_, _, _, _)
InsertionSort(s, i, field, ascending) ==
    IF i > Len(s) THEN s
    ELSE InsertionSort(SiftDown(s, i, field, ascending), i + 1, field, ascending)

SortContainers(s, field, ascending) == InsertionSort(s, 2, field, ascending)

\* ---------------------------------------------- what a collect hands back

\* The entry of container k when it runs and all its calls succeed.
FullEntry(k) ==
    WithLiveStats(
        [BaseStats(Summary(k, "running")) EXCEPT
            !.ImageSize = ImageSizeOf(k),
            !.CPULimit = CPULimitOf(HostConfigOf(k))],
        PayloadOf(k))

Injections(n) ==
    { f \in [1..n -> 1..n] : \A i, j \in 1..n : f[i] = f[j] => i = j }

\* The snapshot sets GetContainerStats returns to a session: the entries of
\* the n listed containers, in the order the tasks happened to send them.
SnapshotSets ==
    UNION { { [i \in 1..n |-> FullEntry(f[i])] : f \in Injections(n) } :
            n \in 0..MaxContainers }

\* ---------------------------------------------------------------- state

VARIABLES
    \* Client.GetContainerStats: one call
    gPc,        \* where the calling goroutine is
    listAns,    \* what ContainerList answered: "none", "ok" or "fail"
    listed,     \* containers: what ContainerList returned
    ctxDone,    \* the caller's context is cancelled or past its deadline
    spawned,    \* how many goroutines the for loop has launched
    task,       \* task[k]: the goroutine of container k: [pc, stats, err]
    outcome,    \* outcome[k]: what each runtime call of task k answered
    calls,      \* runtime calls issued: calls.list, calls.image[k], ...
    statsChan,  \* the buffered channel's content
    errChan,
    chanClosed,
    wg,         \* the WaitGroup counter
    result,     \* what the call returned
    retErr,
    \* getContainerStats: the derivation of the live metrics alone
    statsJSON,  \* the payload decoded from the ContainerStats answer
    liveStats,  \* stats, as lines 232-259 leave it
    containerInfo, \* what ContainerInspect answered: [err, HostConfig]
    derivePc,   \* "inspect", "stats", "done"; "none" when nothing is derived
    \* a session: statsModel under bubbletea, or ui.App under tview
    session,    \* "tea", "app", or "none" when only the collector runs
    proc,       \* the process: "init", "running", "stopped", "closed", "exited"
    lateCall,   \* a runtime call was issued after Client.Close
    containers, \* m.containers / a.containers
    sortField,
    sortAsc,
    \* statsModel
    info,       \* m.info: "nil" or "info"
    width,
    height,
    scroll,
    selected,
    err,        \* m.err: "nil" or the list error
    quitting,
    ticks,      \* tea.Tick timers pending
    fetches,    \* fetchContainers commands running: the stage each is in,
                \* those already past ListContainers first
    \* ui.App
    queueBlocks, \* tview: QueueUpdateDraw returns only once f has run
    appReady,   \* a.app is set (Run has created the tview application)
    ctxCancelled, \* a.cancel() has been called
    mu,         \* a.mu: [w: the goroutine holding Lock or "none", r: RLock held]
    rpc,        \* rpc[g]: where goroutine g is in refreshLoop / refresh
    uiPc,       \* where the tview event loop is
    updates,    \* the functions queued by QueueUpdateDraw, oldest first
    drawFor,    \* who queued the table update being run
    drawSeen,   \* a.containers as the running table update found it
    statusBar,  \* "keys" or "error"
    infoBar,    \* "empty" or "info"
    \* ui.App: what has happened to the refreshes under way
    recording,  \* whether that is kept at all (in SpecRefresh only)
    noInfo,     \* the goroutines whose refresh got no daemon summary and
                \* has gone on alone since, nothing written to the info bar
    race        \* of two GetContainerStats calls under way: whose began
                \* first, and whether the later one has been committed

collectVars == <<gPc, listAns, listed, ctxDone, spawned, task, outcome, calls,
                 statsChan, errChan, chanClosed, wg, result, retErr,
                 statsJSON, liveStats, containerInfo, derivePc>>

sessVars == <<session, proc, lateCall, containers, sortField, sortAsc>>

teaVars == <<info, width, height, scroll, selected, err, quitting, ticks, fetches>>

appVars == <<queueBlocks, appReady, ctxCancelled, mu, rpc, uiPc, updates, drawFor,
             drawSeen, statusBar, infoBar, recording, noInfo, race>>

vars == <<collectVars, sessVars, teaVars, appVars>>

Tasks == 1..MaxContainers

IdleTask == [pc |-> "none", stats |-> ZeroStats, err |-> "nil"]
NoOutcome == [image |-> "none", inspect |-> "none", stats |-> "none", decode |-> "none"]
NoCalls == [list |-> 0,
            image |-> [k \in Tasks |-> 0],
            inspect |-> [k \in Tasks |-> 0],
            stats |-> [k \in Tasks |-> 0]]

CollectInit ==
    /\ gPc = "idle"
    /\ listAns = "none"
    /\ listed = << >>
    /\ ctxDone \in BOOLEAN
    /\ spawned = 0
    /\ task = [k \in Tasks |-> IdleTask]
    /\ outcome = [k \in Tasks |-> NoOutcome]
    /\ calls = NoCalls
    /\ statsChan = << >>
    /\ errChan = << >>
    /\ chanClosed = FALSE
    /\ wg = 0
    /\ result = << >>
    /\ retErr = "nil"

\* No payload is being derived apart from the tasks' own.
NoDecode ==
    /\ statsJSON = ZeroStatsJSON
    /\ liveStats = ZeroStats
    /\ containerInfo = NoInspect
    /\ derivePc = "none"

\* A runtime call on a cancelled context answers with the context's error.
CallAnswers(ok) == IF ctxDone THEN {"fail"} ELSE {"fail", ok}

\* The context is cancelled (or its deadline passes) while the call runs.
CancelContext ==
    /\ gPc \notin {"idle", "returned"}
    /\ ~ctxDone
    /\ ctxDone' = TRUE
    /\ UNCHANGED <<gPc, listAns, listed, spawned, task, outcome, calls, statsChan,
                   errChan, chanClosed, wg, result, retErr>>
    /\ UNCHANGED <<statsJSON, liveStats, containerInfo, derivePc>>
    /\ UNCHANGED <<sessVars, teaVars, appVars>>

\* GetContainerStats, lines 137-152: the list call, the early returns, the
\* channels.
ListContainers ==
    /\ gPc = "idle"
    /\ calls' = [calls EXCEPT !.list = @ + 1]
    /\ \E showAll \in BOOLEAN, ans \in CallAnswers("ok") :
       /\ listAns' = ans
       /\ IF ans = "fail"
          THEN /\ gPc' = "returned"
               /\ retErr' = "failed to list containers"
               /\ result' = << >>
               /\ UNCHANGED listed
          ELSE \E l \in Listings(showAll) :
                 /\ listed' = l
                 /\ retErr' = "nil"
                 /\ result' = << >>
                 /\ gPc' = IF Len(l) = 0 THEN "returned" ELSE "spawn"
    /\ UNCHANGED <<ctxDone, spawned, task, outcome, statsChan, errChan,
                   chanClosed, wg>>
    /\ UNCHANGED <<statsJSON, liveStats, containerInfo, derivePc>>
    /\ UNCHANGED <<sessVars, teaVars, appVars>>

\* lines 154-166: wg.Add(1); go func(cont) {...}(cont)
SpawnTask ==
    /\ gPc = "spawn"
    /\ spawned < Len(listed)
    /\ spawned' = spawned + 1
    /\ wg' = wg + 1
    /\ task' = [task EXCEPT ![spawned + 1].pc = "start"]
    /\ UNCHANGED <<gPc, listAns, listed, ctxDone, outcome, calls, statsChan, errChan,
                   chanClosed, result, retErr>>
    /\ UNCHANGED <<statsJSON, liveStats, containerInfo, derivePc>>
    /\ UNCHANGED <<sessVars, teaVars, appVars>>

\* The for loop is over: the caller reaches wg.Wait().
SpawnDone ==
    /\ gPc = "spawn"
    /\ spawned = Len(listed)
    /\ gPc' = "wait"
    /\ UNCHANGED <<listAns, listed, ctxDone, spawned, task, outcome, calls, statsChan,
                   errChan, chanClosed, wg, result, retErr>>
    /\ UNCHANGED <<statsJSON, liveStats, containerInfo, derivePc>>
    /\ UNCHANGED <<sessVars, teaVars, appVars>>

\* The barrier left out: the caller goes on without waiting.
WaitGroupNoWait ==
    /\ gPc = "wait"
    /\ gPc' = "close"
    /\ UNCHANGED <<listAns, listed, ctxDone, spawned, task, outcome, calls, statsChan,
                   errChan, chanClosed, wg, result, retErr>>
    /\ UNCHANGED <<statsJSON, liveStats, containerInfo, derivePc>>
    /\ UNCHANGED <<sessVars, teaVars, appVars>>

\* line 168: wg.Wait() returns when the counter is zero.
WaitGroupWait ==
    /\ gPc = "wait"
    /\ wg = 0
    /\ gPc' = "close"
    /\ UNCHANGED <<listAns, listed, ctxDone, spawned, task, outcome, calls, statsChan,
                   errChan, chanClosed, wg, result, retErr>>
    /\ UNCHANGED <<statsJSON, liveStats, containerInfo, derivePc>>
    /\ UNCHANGED <<sessVars, teaVars, appVars>>

\* lines 169-178: close both channels, drain statsChan, return.
CollectResults ==
    /\ gPc = "close"
    /\ chanClosed' = TRUE
    /\ result' = statsChan
    /\ statsChan' = << >>
    /\ retErr' = "nil"
    /\ gPc' = "returned"
    /\ UNCHANGED <<listAns, listed, ctxDone, spawned, task, outcome, calls, errChan, wg>>
    /\ UNCHANGED <<statsJSON, liveStats, containerInfo, derivePc>>
    /\ UNCHANGED <<sessVars, teaVars, appVars>>

\* getContainerStats, lines 183-196: the base fields, then ImageInspect.
TaskStart(k) ==
    /\ task[k].pc = "start"
    /\ task' = [task EXCEPT ![k].pc = "image", ![k].stats = BaseStats(listed[k])]
    /\ calls' = [calls EXCEPT !.image[k] = @ + 1]
    /\ UNCHANGED <<gPc, listAns, listed, ctxDone, spawned, outcome, statsChan, errChan,
                   chanClosed, wg, result, retErr>>
    /\ UNCHANGED <<statsJSON, liveStats, containerInfo, derivePc>>
    /\ UNCHANGED <<sessVars, teaVars, appVars>>

\* A failed ImageInspect issued a second time before the task goes on.
ImageInspectReturnRetries(k) ==
    /\ task[k].pc = "image"
    /\ \E ans \in CallAnswers("ok") :
         /\ outcome' = [outcome EXCEPT ![k].image = ans]
         /\ IF ans = "fail" /\ calls.image[k] < 2
            THEN /\ calls' = [calls EXCEPT !.image[k] = @ + 1]
                 /\ UNCHANGED task
            ELSE /\ calls' = [calls EXCEPT !.inspect[k] = @ + 1]
                 /\ task' = [task EXCEPT
                        ![k].pc = "inspect",
                        ![k].stats.ImageSize =
                            IF ans = "ok" THEN ImageSizeOf(k) ELSE @]
    /\ UNCHANGED <<gPc, listAns, listed, ctxDone, spawned, statsChan, errChan,
                   chanClosed, wg, result, retErr>>
    /\ UNCHANGED <<statsJSON, liveStats, containerInfo, derivePc>>
    /\ UNCHANGED <<sessVars, teaVars, appVars>>

\* lines 196-202: ImageInspect answers; then ContainerInspect.
ImageInspectReturn(k) ==
    /\ task[k].pc = "image"
    /\ \E ans \in CallAnswers("ok") :
         /\ outcome' = [outcome EXCEPT ![k].image = ans]
         /\ task' = [task EXCEPT
                ![k].pc = "inspect",
                ![k].stats.ImageSize = IF ans = "ok" THEN ImageSizeOf(k) ELSE @]
    /\ calls' = [calls EXCEPT !.inspect[k] = @ + 1]
    /\ UNCHANGED <<gPc, listAns, listed, ctxDone, spawned, statsChan, errChan,
                   chanClosed, wg, result, retErr>>
    /\ UNCHANGED <<statsJSON, liveStats, containerInfo, derivePc>>
    /\ UNCHANGED <<sessVars, teaVars, appVars>>

\* The state check left out: every container asks for its live stats.
AfterInspectNoStateCheck(st, k) == "stats"

\* lines 214-217: the state check after the inspect calls.
AfterInspect(st, k) ==
    IF listed[k].State # "running" THEN "send" ELSE "stats"

\* lines 202-220: ContainerInspect answers; a container that is not running
\* returns here, a running one asks for its stats.
ContainerInspectReturn(k) ==
    /\ task[k].pc = "inspect"
    /\ \E ans \in CallAnswers("ok") :
         /\ outcome' = [outcome EXCEPT ![k].inspect = ans]
         /\ LET st == [task[k].stats EXCEPT
                         !.CPULimit = IF ans = "ok"
                                      THEN CPULimitOf(HostConfigOf(k)) ELSE @]
                next == AfterInspect(st, k)
            IN  /\ task' = [task EXCEPT ![k].pc = next, ![k].stats = st]
                /\ calls' = IF next = "stats"
                            THEN [calls EXCEPT !.stats[k] = @ + 1]
                            ELSE calls
    /\ UNCHANGED <<gPc, listAns, listed, ctxDone, spawned, statsChan, errChan,
                   chanClosed, wg, result, retErr>>
    /\ UNCHANGED <<statsJSON, liveStats, containerInfo, derivePc>>
    /\ UNCHANGED <<sessVars, teaVars, appVars>>

\* The error handed on instead of absorbed: return stats, err.
OnStatsErrorPropagate(st) == [stats |-> st, err |-> "stats"]

\* The fields gathered so far dropped: return ContainerStats{}, nil.
OnStatsErrorZero(st) == [stats |-> ZeroStats, err |-> "nil"]

\* lines 220-223: what the task returns when ContainerStats fails.
OnStatsError(st) == [stats |-> st, err |-> "nil"]

\* lines 220-261: ContainerStats answers; the body is decoded (reading it may
\* fail whatever the call answered) and the live metrics are derived.
ContainerStatsReturn(k) ==
    /\ task[k].pc = "stats"
    /\ \E ans \in CallAnswers("ok"), dec \in {"fail", "ok"} :
         IF ans = "fail"
         THEN /\ outcome' = [outcome EXCEPT ![k].stats = ans]
              /\ LET r == OnStatsError(task[k].stats)
                 IN  task' = [task EXCEPT ![k].pc = "send",
                                          ![k].stats = r.stats,
                                          ![k].err = r.err]
         ELSE /\ outcome' = [outcome EXCEPT ![k].stats = ans, ![k].decode = dec]
              /\ task' = [task EXCEPT
                     ![k].pc = "send",
                     ![k].stats = IF dec = "ok"
                                  THEN WithLiveStats(@, PayloadOf(k)) ELSE @]
    /\ UNCHANGED <<gPc, listAns, listed, ctxDone, spawned, calls, statsChan, errChan,
                   chanClosed, wg, result, retErr>>
    /\ UNCHANGED <<statsJSON, liveStats, containerInfo, derivePc>>
    /\ UNCHANGED <<sessVars, teaVars, appVars>>

\* Channels one place too small.
ChanCapOneShort == Len(listed) - 1

\* make(chan ContainerStats, len(containers))
ChanCap == Len(listed)

\* lines 159-164: the result goes to one of the two channels; a send blocks
\* while the buffer is full and panics on a closed channel.
TaskSend(k) ==
    /\ task[k].pc = "send"
    /\ IF chanClosed
       THEN /\ task' = [task EXCEPT ![k].pc = "panic"]
            /\ UNCHANGED <<statsChan, errChan>>
       ELSE IF task[k].err # "nil"
       THEN /\ Len(errChan) < ChanCap
            /\ errChan' = Append(errChan, task[k].err)
            /\ task' = [task EXCEPT ![k].pc = "exit"]
            /\ UNCHANGED statsChan
       ELSE /\ Len(statsChan) < ChanCap
            /\ statsChan' = Append(statsChan, task[k].stats)
            /\ task' = [task EXCEPT ![k].pc = "exit"]
            /\ UNCHANGED errChan
    /\ UNCHANGED <<gPc, listAns, listed, ctxDone, spawned, outcome, calls, chanClosed,
                   wg, result, retErr>>
    /\ UNCHANGED <<statsJSON, liveStats, containerInfo, derivePc>>
    /\ UNCHANGED <<sessVars, teaVars, appVars>>

\* line 157: defer wg.Done()
TaskDone(k) ==
    /\ task[k].pc = "exit"
    /\ wg' = wg - 1
    /\ task' = [task EXCEPT ![k].pc = "done"]
    /\ UNCHANGED <<gPc, listAns, listed, ctxDone, spawned, outcome, calls, statsChan,
                   errChan, chanClosed, result, retErr>>
    /\ UNCHANGED <<statsJSON, liveStats, containerInfo, derivePc>>
    /\ UNCHANGED <<sessVars, teaVars, appVars>>

\* ------------------------------------------------- statsModel (bubbletea)

\* Bubbletea runs Update on one goroutine, one message at a time, and each
\* command it returns on a goroutine of its own.  A fetchContainers command
\* is "collect" while GetContainerStats runs, then "info" while GetDockerInfo
\* runs; what it fetched does not depend on the session, and is drawn when
\* its containerMsg is handled.

\* Terminal sizes a WindowSizeMsg reports: a terminal can be made smaller
\* than the table's header and footer.
Heights == {9, 11, 12}
Widths == {80}

SortKeys == {"c", "m", "n", "d", "i"}
NavKeys == {"up", "down", "pgup", "pgdown", "home", "end"}

InTea == session = "tea" /\ proc = "running"

\* p.Run: Init() returns tea.Batch(tickCmd, fetchContainers).
TeaInit ==
    /\ session = "tea" /\ proc = "init"
    /\ proc' = "running"
    /\ ticks' = 1
    /\ fetches' = <<"collect">>
    /\ UNCHANGED <<session, lateCall, containers, sortField, sortAsc>>
    /\ UNCHANGED <<info, width, height, scroll, selected, err, quitting>>
    /\ UNCHANGED <<collectVars, appVars>>

\* Update, tea.WindowSizeMsg.
TeaWindowSize ==
    /\ InTea
    /\ \E w \in Widths, h \in Heights : width' = w /\ height' = h
    /\ UNCHANGED <<info, scroll, selected, err, quitting, ticks, fetches>>
    /\ UNCHANGED <<sessVars, collectVars, appVars>>

SortKeyField(key) ==
    CASE key = "c" -> SortByCPU
      [] key = "m" -> SortByMemory
      [] key = "n" -> SortByName
      [] key = "d" -> SortByBlockIO
      [] key = "i" -> SortByImageSize

\* The direction a key sets when it changes the field.
SortKeyDefaultAsc(key) == key = "n"

\* A sort key that sets another field and forgets to set the direction.
TeaSortCommandKeepsDirection(key, field, asc) ==
    IF field = SortKeyField(key)
    THEN [field |-> field, asc |-> ~asc]
    ELSE [field |-> SortKeyField(key), asc |-> asc]

\* Update, the keys c, m, n, d, i: the same field flips the direction, another
\* field is set with its default direction.
TeaSortCommand(key, field, asc) ==
    IF field = SortKeyField(key)
    THEN [field |-> field, asc |-> ~asc]
    ELSE [field |-> SortKeyField(key), asc |-> SortKeyDefaultAsc(key)]

\* What a sort key does to m.containers: Update leaves them as they are until
\* the next containerMsg.
TeaResort(s, field, asc) == s

TeaSortKey(key) ==
    /\ InTea
    /\ LET r == TeaSortCommand(key, sortField, sortAsc)
       IN  /\ sortField' = r.field
           /\ sortAsc' = r.asc
           /\ containers' = TeaResort(containers, r.field, r.asc)
    /\ UNCHANGED <<session, proc, lateCall>>
    /\ UNCHANGED <<teaVars, collectVars, appVars>>

\* visibleRows := m.height - 10
HeaderRows == 10
\* m.selected -= 10
PageStep == 10

VisibleRowsRaw == height - HeaderRows
VisibleRows == IF VisibleRowsRaw < 1 THEN 1 ELSE VisibleRowsRaw

\* Update, the keys up/k, down/j, pgup, pgdown, home, end.
NavResult(key) ==
    LET n == Len(containers)
        cur == [selected |-> selected, scroll |-> scroll]
    IN  CASE key = "up" ->
               IF selected > 0
               THEN [selected |-> selected - 1,
                     scroll |-> IF selected - 1 < scroll THEN selected - 1 ELSE scroll]
               ELSE cur
          [] key = "down" ->
               IF selected < n - 1
               THEN [selected |-> selected + 1,
                     scroll |-> IF selected + 1 >= scroll + VisibleRows
                                THEN selected + 1 - VisibleRows + 1 ELSE scroll]
               ELSE cur
          [] key = "pgup" ->
               LET sel == IF selected - PageStep < 0 THEN 0 ELSE selected - PageStep
               IN  [selected |-> sel, scroll |-> sel]
          [] key = "pgdown" ->
               LET sel == IF selected + PageStep >= n THEN n - 1 ELSE selected + PageStep
               IN  [selected |-> sel,
                    scroll |-> IF sel >= scroll + VisibleRowsRaw
                               THEN sel - VisibleRowsRaw + 1 ELSE scroll]
          [] key = "home" -> [selected |-> 0, scroll |-> 0]
          [] key = "end" ->
               LET sc == (n - 1) - VisibleRowsRaw + 1
               IN  [selected |-> n - 1, scroll |-> IF sc < 0 THEN 0 ELSE sc]

\* A navigation key that falls through to the refresh key's return.
TeaNavKeyFetches(key) ==
    /\ InTea
    /\ selected' = NavResult(key).selected
    /\ scroll' = NavResult(key).scroll
    /\ Len(fetches) < MaxInFlight
    /\ fetches' = Append(fetches, "collect")
    /\ UNCHANGED <<info, width, height, err, quitting, ticks>>
    /\ UNCHANGED <<sessVars, collectVars, appVars>>

TeaNavKey(key) ==
    /\ InTea
    /\ selected' = NavResult(key).selected
    /\ scroll' = NavResult(key).scroll
    /\ UNCHANGED <<info, width, height, err, quitting, ticks, fetches>>
    /\ UNCHANGED <<sessVars, collectVars, appVars>>

\* A refresh key that also batched tickCmd.
TeaRefreshKeyReschedules ==
    /\ InTea
    /\ Len(fetches) < MaxInFlight
    /\ fetches' = Append(fetches, "collect")
    /\ ticks' = ticks + 1
    /\ UNCHANGED <<info, width, height, scroll, selected, err, quitting>>
    /\ UNCHANGED <<sessVars, collectVars, appVars>>

\* Update, the key r: return m, fetchContainers(...).
TeaRefreshKey ==
    /\ InTea
    /\ Len(fetches) < MaxInFlight
    /\ fetches' = Append(fetches, "collect")
    /\ UNCHANGED <<info, width, height, scroll, selected, err, quitting, ticks>>
    /\ UNCHANGED <<sessVars, collectVars, appVars>>

\* Update, tickMsg: tea.Batch(tickCmd, fetchContainers).
TeaTick ==
    /\ InTea
    /\ ticks > 0
    /\ Len(fetches) < MaxInFlight
    /\ ticks' = ticks - 1 + 1
    /\ fetches' = Append(fetches, "collect")
    /\ UNCHANGED <<info, width, height, scroll, selected, err, quitting>>
    /\ UNCHANGED <<sessVars, collectVars, appVars>>

\* fetchContainers, lines 224-225: GetContainerStats has returned and the
\* command goes on to GetDockerInfo, whatever became of the program.
FetchCollectReturn ==
    /\ session = "tea" /\ proc \in {"running", "stopped", "closed"}
    /\ \E i \in 1..Len(fetches) :
         /\ fetches[i] = "collect"
         /\ \A j \in 1..(i - 1) : fetches[j] = "info"
         /\ fetches' = [fetches EXCEPT ![i] = "info"]
    /\ lateCall' = (lateCall \/ proc = "closed")
    /\ UNCHANGED <<session, proc, containers, sortField, sortAsc>>
    /\ UNCHANGED <<info, width, height, scroll, selected, err, quitting, ticks>>
    /\ UNCHANGED <<collectVars, appVars>>

\* What a containerMsg puts in m.containers: GetContainerStats returns a nil
\* slice with its error.
MsgContainers(res, failed) == IF failed THEN << >> ELSE res

\* The lower check forgotten: an empty list leaves selected at -1.
ClampSelectedNoFloor(sel, n) == IF sel >= n THEN n - 1 ELSE sel

\* lines 336-342: keep selected in bounds.
ClampSelected(sel, n) ==
    LET sel1 == IF sel >= n THEN n - 1 ELSE sel
    IN  IF sel1 < 0 THEN 0 ELSE sel1

\* Neither maxScroll nor scroll held at 0.
ClampScrollNoFloor(sc, n) ==
    LET maxScroll == n - VisibleRows
    IN  IF sc > maxScroll THEN maxScroll ELSE sc

\* lines 343-357: keep scroll in bounds.
ClampScroll(sc, n) ==
    LET maxScroll == IF n - VisibleRows < 0 THEN 0 ELSE n - VisibleRows
        sc1 == IF sc > maxScroll THEN maxScroll ELSE sc
    IN  IF sc1 < 0 THEN 0 ELSE sc1

\* Update, containerMsg (lines 331-358): the command's message is handled.
TeaContainerMsg(failed) ==
    /\ InTea
    /\ fetches # << >> /\ Head(fetches) = "info"
    /\ fetches' = Tail(fetches)
    /\ \E res \in (IF failed THEN {<< >>} ELSE SnapshotSets), inf \in {"nil", "info"} :
         /\ info' = inf
         /\ err' = IF failed THEN "failed to list containers" ELSE "nil"
         /\ LET cs == SortContainers(MsgContainers(res, failed), sortField, sortAsc)
            IN  /\ containers' = cs
                /\ selected' = ClampSelected(selected, Len(cs))
                /\ scroll' = ClampScroll(scroll, Len(cs))
    /\ UNCHANGED <<session, proc, lateCall, sortField, sortAsc>>
    /\ UNCHANGED <<width, height, quitting, ticks>>
    /\ UNCHANGED <<collectVars, appVars>>

\* A command that finishes after the program has ended: its message is
\* dropped.
FetchAbandoned ==
    /\ session = "tea" /\ proc \in {"stopped", "closed"}
    /\ fetches # << >> /\ Head(fetches) = "info"
    /\ fetches' = Tail(fetches)
    /\ UNCHANGED <<info, width, height, scroll, selected, err, quitting, ticks>>
    /\ UNCHANGED <<sessVars, collectVars, appVars>>

\* Update, the keys q and ctrl+c (bubbletea turns SIGINT into the same
\* message): m.quitting = true, and tea.Quit ends p.Run.  Nothing cancels
\* the pending tea.Tick timer or the commands still running.
TeaQuit ==
    /\ InTea
    /\ quitting' = TRUE
    /\ proc' = "stopped"
    /\ UNCHANGED <<session, lateCall, containers, sortField, sortAsc>>
    /\ UNCHANGED <<info, width, height, scroll, selected, err, ticks, fetches>>
    /\ UNCHANGED <<collectVars, appVars>>

\* The statsModel value that View is called on.
statsModel ==
    [containers |-> containers, info |-> info, sortField |-> sortField,
     sortAsc |-> sortAsc, width |-> width, height |-> height,
     scroll |-> scroll, selected |-> selected, err |-> err,
     quitting |-> quitting]

\* visibleRows := m.height - 8
ViewHeaderRows == 8

\* View, lines 464-467.
ViewVisibleRows ==
    IF height - ViewHeaderRows < 1 THEN 1 ELSE height - ViewHeaderRows

\* View, lines 470-476: the indices i at which m.containers[i] is read;
\* none where View returns before the table (lines 365-371).
ViewReads ==
    LET n == Len(containers)
        endIdx == IF scroll + ViewVisibleRows > n THEN n ELSE scroll + ViewVisibleRows
    IN  IF quitting \/ width = 0 THEN {} ELSE scroll..(endIdx - 1)

\* View, lines 383-393: the name shown for the sort field.
SortName(field) ==
    CASE field = SortByMemory -> "MEM"
      [] field = SortByName -> "NAME"
      [] field = SortByBlockIO -> "DISK"
      [] field = SortByImageSize -> "IMG"
      [] OTHER -> "CPU"

\* View, lines 364-554: what the screen shows of m: nothing once quitting,
\* "Loading..." before the first window size, else the header (daemon
\* summary, sort field and direction), the rows scroll .. endIdx-1 with the
\* selected one highlighted, and the scroll indicator.
View(m) ==
    LET raw == m.height - ViewHeaderRows
        visibleRows == IF raw < 1 THEN 1 ELSE raw
        n == Len(m.containers)
        endIdx == IF m.scroll + visibleRows > n THEN n ELSE m.scroll + visibleRows
        blank == [screen |-> "", info |-> "nil", sortName |-> "", sortAsc |-> FALSE,
                  rows |-> << >>, highlighted |-> -1, scrollInfo |-> << >>]
    IN  IF m.quitting THEN blank
        ELSE IF m.width = 0 THEN [blank EXCEPT !.screen = "Loading..."]
        ELSE [screen |-> "table",
              info |-> m.info,
              sortName |-> SortName(m.sortField),
              sortAsc |-> m.sortAsc,
              rows |-> SubSeq(m.containers, m.scroll + 1, endIdx),
              highlighted |-> IF m.scroll <= m.selected /\ m.selected < endIdx
                              THEN m.selected ELSE -1,
              scrollInfo |-> IF n > visibleRows
                             THEN <<m.scroll + 1, endIdx, n>> ELSE << >>]

\* ------------------------------------------------------------ ui.App (tview)

\* The goroutines that call refresh: the one Run starts (the first refresh,
\* then refreshLoop) and the one the key r starts.
Refreshers == {"loop", "manual"}

AppAlive == session = "app" /\ proc \in {"running", "stopped", "closed"}

MuFree == mu.w = "none" /\ ~mu.r

\* A runtime call issued once main has closed the client.
Late == lateCall \/ proc = "closed"

\* Where a goroutine goes when its refresh returns: Run's goroutine enters
\* refreshLoop after the first refresh and is back at the select after the
\* later ones; the key's goroutine ends.
RefreshEnd(g) ==
    IF g = "loop" THEN (IF ticks > 0 THEN "select" ELSE "start") ELSE "off"

\* refresh is under way in goroutine g: between its GetDockerInfo answer and
\* its return.
InRefresh(pcs, g) == pcs[g] \in {"collect", "lock", "sort", "table", "wait"}

\* The GetContainerStats call of g is under way, or has returned a result
\* that refresh has not assigned yet.
InCollect(pcs, g) == pcs[g] \in {"collect", "lock"}

Other(g) == IF g = "loop" THEN "manual" ELSE "loop"

NoRace == [first |-> "none", overtaken |-> FALSE]

\* Which of two overlapping GetContainerStats calls began first, from the
\* step the goroutines take: a call that begins while the other goroutine's
\* is under way is the later one; the later one is committed when its
\* goroutine assigns a.containers.
RaceNext ==
    LET began == {g \in Refreshers : ~InCollect(rpc, g) /\ InCollect(rpc', g)}
        commits == {g \in Refreshers : rpc[g] = "lock" /\ rpc'[g] = "sort"}
    IN  IF \E g \in began : InCollect(rpc', Other(g))
        THEN [first |-> Other(CHOOSE g \in began : TRUE), overtaken |-> FALSE]
        ELSE IF race.first = "none" \/ ~InCollect(rpc', race.first)
        THEN NoRace
        ELSE IF Other(race.first) \in commits
        THEN [race EXCEPT !.overtaken = TRUE]
        ELSE IF ~race.overtaken /\ ~InCollect(rpc', Other(race.first))
        THEN NoRace
        ELSE race

\* What the step adds to the record of the refreshes under way; failed
\* holds the goroutine whose GetDockerInfo call has just failed, drawn says
\* that the event loop has just written a summary to the info bar.
History(failed, drawn) ==
    /\ recording' = recording
    /\ IF recording
       THEN /\ noInfo' = IF drawn THEN {}
                         ELSE {g \in noInfo \cup failed :
                                 /\ InRefresh(rpc', g)
                                 /\ rpc'[Other(g)] # "info"
                                 /\ ~InRefresh(rpc', Other(g))}
            /\ race' = RaceNext
       ELSE UNCHANGED <<noInfo, race>>

\* NewApp, lines 36-48.
AppModelInit ==
    /\ appReady = FALSE
    /\ ctxCancelled = FALSE
    /\ mu = [w |-> "none", r |-> FALSE]
    /\ rpc = [g \in Refreshers |-> "off"]
    /\ uiPc = "off"
    /\ updates = << >>
    /\ drawFor = "none"
    /\ drawSeen = << >>
    /\ statusBar = "keys"
    /\ infoBar = "empty"
    /\ noInfo = {}
    /\ race = NoRace

\* Run, lines 51-70: the tview application, the widgets, the refresh
\* goroutine, the event loop.
AppRun ==
    /\ session = "app" /\ proc = "init"
    /\ proc' = "running"
    /\ appReady' = TRUE
    /\ rpc' = [rpc EXCEPT !["loop"] = "sleep"]
    /\ uiPc' = "idle"
    /\ UNCHANGED <<session, lateCall, containers, sortField, sortAsc>>
    /\ UNCHANGED <<queueBlocks, ctxCancelled, mu, updates, drawFor, drawSeen,
                   statusBar, infoBar>>
    /\ UNCHANGED <<teaVars, collectVars>>
    /\ History({}, FALSE)

\* Run, lines 65-66, and refreshLoop, lines 163-164: the goroutine calls
\* refresh, which asks for the daemon summary first.
LoopRefresh ==
    /\ AppAlive
    /\ rpc["loop"] \in {"sleep", "select"}
    /\ rpc' = [rpc EXCEPT !["loop"] = "info"]
    /\ lateCall' = Late
    /\ UNCHANGED <<session, proc, containers, sortField, sortAsc>>
    /\ UNCHANGED <<queueBlocks, appReady, ctxCancelled, mu, uiPc, updates, drawFor,
                   drawSeen, statusBar, infoBar>>
    /\ UNCHANGED <<teaVars, collectVars>>
    /\ History({}, FALSE)

\* refreshLoop, line 156: ticker := time.NewTicker(a.interval).
LoopStart ==
    /\ AppAlive
    /\ rpc["loop"] = "start"
    /\ rpc' = [rpc EXCEPT !["loop"] = "select"]
    /\ ticks' = ticks + 1
    /\ UNCHANGED <<info, width, height, scroll, selected, err, quitting, fetches>>
    /\ UNCHANGED <<queueBlocks, appReady, ctxCancelled, mu, uiPc, updates, drawFor,
                   drawSeen, statusBar, infoBar>>
    /\ UNCHANGED <<sessVars, collectVars>>
    /\ History({}, FALSE)

\* refreshLoop, lines 161-162: case <-a.ctx.Done(): return, and the
\* deferred ticker.Stop() of line 157.
LoopExit ==
    /\ AppAlive
    /\ rpc["loop"] = "select"
    /\ ctxCancelled
    /\ rpc' = [rpc EXCEPT !["loop"] = "exited"]
    /\ ticks' = ticks - 1
    /\ UNCHANGED <<info, width, height, scroll, selected, err, quitting, fetches>>
    /\ UNCHANGED <<queueBlocks, appReady, ctxCancelled, mu, uiPc, updates, drawFor,
                   drawSeen, statusBar, infoBar>>
    /\ UNCHANGED <<sessVars, collectVars>>
    /\ History({}, FALSE)

\* a.updates <- ... blocks while the queue is full.
QueueHasRoom == queueBlocks \/ Len(updates) < MaxQueue

\* Who waits for a queued update: its caller, where QueueUpdateDraw waits.
Waiter(g) == IF queueBlocks THEN g ELSE "none"

\* Where refresh goes on once QueueUpdateDraw has returned.
AfterQueue(g, kind) ==
    IF kind = "info" THEN "collect" ELSE RefreshEnd(g)

\* a.app.QueueUpdateDraw(f), lines 183, 199, 218: f joins the queue; the
\* caller goes on, or waits until the event loop has run f.  Once the event
\* loop has ended f is never run: the queue is not followed any further.
QueueUpdateDraw(g, kind) ==
    /\ IF proc = "running"
       THEN /\ QueueHasRoom
            /\ updates' = Append(updates, [kind |-> kind, from |-> Waiter(g)])
       ELSE updates' = updates
    /\ rpc' = [rpc EXCEPT ![g] = IF queueBlocks THEN "wait" ELSE AfterQueue(g, kind)]

\* refresh, lines 175-181: GetDockerInfo answers; on success updateInfoBar
\* queues the info bar update; then GetContainerStats is called.
RefreshInfoReturn(g, ok) ==
    /\ AppAlive
    /\ rpc[g] = "info"
    /\ IF ok /\ ~ctxCancelled
       THEN /\ QueueUpdateDraw(g, "info")
            /\ lateCall' = IF queueBlocks THEN lateCall ELSE Late
            /\ History({}, FALSE)
       ELSE /\ rpc' = [rpc EXCEPT ![g] = "collect"]
            /\ lateCall' = Late
            /\ UNCHANGED updates
            /\ History({g}, FALSE)
    /\ UNCHANGED <<session, proc, containers, sortField, sortAsc>>
    /\ UNCHANGED <<queueBlocks, appReady, ctxCancelled, mu, uiPc, drawFor,
                   drawSeen, statusBar, infoBar>>
    /\ UNCHANGED <<teaVars, collectVars>>

\* refresh, lines 181-187: GetContainerStats answers; its error goes to the
\* status bar through a queued update, and refresh returns.
RefreshCollectReturn(g, failed) ==
    /\ AppAlive
    /\ rpc[g] = "collect"
    /\ IF failed
       THEN QueueUpdateDraw(g, "error")
       ELSE /\ rpc' = [rpc EXCEPT ![g] = "lock"]
            /\ UNCHANGED updates
    /\ UNCHANGED <<queueBlocks, appReady, ctxCancelled, mu, uiPc, drawFor,
                   drawSeen, statusBar, infoBar>>
    /\ UNCHANGED <<sessVars, teaVars, collectVars>>
    /\ History({}, FALSE)

\* refresh, line 194: updateTable queues the table update.
RefreshUpdateTable(g) ==
    /\ AppAlive
    /\ rpc[g] = "table"
    /\ QueueUpdateDraw(g, "table")
    /\ UNCHANGED <<queueBlocks, appReady, ctxCancelled, mu, uiPc, drawFor,
                   drawSeen, statusBar, infoBar>>
    /\ UNCHANGED <<sessVars, teaVars, collectVars>>
    /\ History({}, FALSE)

\* refresh writing a.containers without waiting for the mutex.
RefreshNoLock == TRUE

\* a.mu.Lock() in refresh.
RefreshMayLock == MuFree
RefreshHolder(g) == g

\* refresh, lines 189-190: a.mu.Lock(); a.containers = containers.
RefreshLockAssign(g) ==
    /\ AppAlive
    /\ rpc[g] = "lock"
    /\ RefreshMayLock
    /\ mu' = [mu EXCEPT !.w = RefreshHolder(g)]
    /\ \E res \in SnapshotSets : containers' = res
    /\ rpc' = [rpc EXCEPT ![g] = "sort"]
    /\ UNCHANGED <<session, proc, lateCall, sortField, sortAsc>>
    /\ UNCHANGED <<queueBlocks, appReady, ctxCancelled, uiPc, updates, drawFor,
                   drawSeen, statusBar, infoBar>>
    /\ UNCHANGED <<teaVars, collectVars>>
    /\ History({}, FALSE)

\* A refresh that puts the direction back to descending when it commits.
RefreshSortUnlockResetsDirection(g) ==
    /\ AppAlive
    /\ rpc[g] = "sort"
    /\ sortAsc' = FALSE
    /\ containers' = SortContainers(containers, sortField, FALSE)
    /\ mu' = [mu EXCEPT !.w = "none"]
    /\ rpc' = [rpc EXCEPT ![g] = "table"]
    /\ UNCHANGED <<session, proc, lateCall, sortField>>
    /\ UNCHANGED <<queueBlocks, appReady, ctxCancelled, uiPc, updates, drawFor,
                   drawSeen, statusBar, infoBar>>
    /\ UNCHANGED <<teaVars, collectVars>>
    /\ History({}, FALSE)

\* refresh, lines 191-194: SortContainers; a.mu.Unlock(); then updateTable.
RefreshSortUnlock(g) ==
    /\ AppAlive
    /\ rpc[g] = "sort"
    /\ containers' = SortContainers(containers, sortField, sortAsc)
    /\ mu' = [mu EXCEPT !.w = "none"]
    /\ rpc' = [rpc EXCEPT ![g] = "table"]
    /\ UNCHANGED <<session, proc, lateCall, sortField, sortAsc>>
    /\ UNCHANGED <<queueBlocks, appReady, ctxCancelled, uiPc, updates, drawFor,
                   drawSeen, statusBar, infoBar>>
    /\ UNCHANGED <<teaVars, collectVars>>
    /\ History({}, FALSE)

\* The event loop handles keys and queued updates while the application
\* runs, one at a time.
UIIdle == session = "app" /\ proc = "running" /\ uiPc = "idle"

\* handleInput, lines 123-125: go a.refresh().
UIRefreshKey ==
    /\ UIIdle
    /\ rpc["manual"] = "off"
    /\ rpc' = [rpc EXCEPT !["manual"] = "info"]
    /\ UNCHANGED <<queueBlocks, appReady, ctxCancelled, mu, uiPc, updates, drawFor,
                   drawSeen, statusBar, infoBar>>
    /\ UNCHANGED <<sessVars, teaVars, collectVars>>
    /\ History({}, FALSE)

\* The fields handleInput passes to setSortField (keys c, m, n).
AppSortFields == {SortByCPU, SortByMemory, SortByName}

\* setSortField, lines 143-148.
setSortField(field, cur, asc) ==
    IF cur = field
    THEN [field |-> cur, asc |-> ~asc]
    ELSE [field |-> field, asc |-> FALSE]

\* a.mu.Lock() in setSortField.
SortMayLock == MuFree

\* handleInput, keys c, m, n: setSortField, lines 142-150: under a.mu the
\* field and the direction are set and a.containers sorted; updateTable
\* follows.
UISortKey(field) ==
    /\ UIIdle
    /\ SortMayLock
    /\ LET r == setSortField(field, sortField, sortAsc)
       IN  /\ sortField' = r.field
           /\ sortAsc' = r.asc
           /\ containers' = SortContainers(containers, r.field, r.asc)
    /\ uiPc' = "queue"
    /\ UNCHANGED <<session, proc, lateCall>>
    /\ UNCHANGED <<queueBlocks, appReady, ctxCancelled, mu, rpc, updates, drawFor,
                   drawSeen, statusBar, infoBar>>
    /\ UNCHANGED <<teaVars, collectVars>>
    /\ History({}, FALSE)

\* updateTable called by setSortField, on the event loop itself: the update
\* joins the queue; where QueueUpdateDraw waits for f, the loop waits for
\* itself.
UISortQueue ==
    /\ session = "app" /\ proc = "running" /\ uiPc = "queue"
    /\ QueueHasRoom
    /\ updates' = Append(updates, [kind |-> "table", from |-> Waiter("ui")])
    /\ uiPc' = IF queueBlocks THEN "wait" ELSE "idle"
    /\ UNCHANGED <<queueBlocks, appReady, ctxCancelled, mu, rpc, drawFor,
                   drawSeen, statusBar, infoBar>>
    /\ UNCHANGED <<sessVars, teaVars, collectVars>>
    /\ History({}, FALSE)

\* The goroutine waiting for the update it queued goes on.
Released(from, kind) ==
    IF queueBlocks /\ from \in Refreshers
    THEN [rpc EXCEPT ![from] = AfterQueue(from, kind)]
    ELSE rpc

\* The event loop runs a queued info-bar or status-bar update
\* (lines 184, 200-212).
UIRunTextUpdate ==
    /\ UIIdle
    /\ updates # << >>
    /\ Head(updates).kind \in {"info", "error"}
    /\ LET u == Head(updates)
       IN  /\ infoBar' = IF u.kind = "info" THEN "info" ELSE infoBar
           /\ statusBar' = IF u.kind = "error" THEN "error" ELSE statusBar
           /\ rpc' = Released(u.from, u.kind)
           /\ lateCall' = IF queueBlocks /\ u.kind = "info" THEN Late ELSE lateCall
    /\ updates' = Tail(updates)
    /\ UNCHANGED <<session, proc, containers, sortField, sortAsc>>
    /\ UNCHANGED <<queueBlocks, appReady, ctxCancelled, mu, uiPc, drawFor, drawSeen>>
    /\ UNCHANGED <<teaVars, collectVars>>
    /\ History({}, Head(updates).kind = "info")

\* a.mu.RLock() in the queued table update.
DrawMayRLock == mu.w = "none"

\* updateTable's queued function, lines 219-238: the table is cleared, the
\* header set, a.mu.RLock() taken, a.containers read.
UIDrawBegin ==
    /\ UIIdle
    /\ updates # << >>
    /\ Head(updates).kind = "table"
    /\ DrawMayRLock
    /\ mu' = [mu EXCEPT !.r = TRUE]
    /\ drawFor' = Head(updates).from
    /\ drawSeen' = containers
    /\ updates' = Tail(updates)
    /\ uiPc' = "draw"
    /\ UNCHANGED <<queueBlocks, appReady, ctxCancelled, rpc, statusBar, infoBar>>
    /\ UNCHANGED <<sessVars, teaVars, collectVars>>
    /\ History({}, FALSE)

\* lines 248-303: the rows are written; the deferred a.mu.RUnlock().
UIDrawEnd ==
    /\ session = "app" /\ proc = "running" /\ uiPc = "draw"
    /\ mu' = [mu EXCEPT !.r = FALSE]
    /\ rpc' = Released(drawFor, "table")
    /\ drawFor' = "none"
    /\ drawSeen' = << >>
    /\ uiPc' = "idle"
    /\ UNCHANGED <<queueBlocks, appReady, ctxCancelled, updates, statusBar, infoBar>>
    /\ UNCHANGED <<sessVars, teaVars, collectVars>>
    /\ History({}, FALSE)

\* a.app.Stop(): the screen is finalised, so the bars show nothing any more,
\* and the functions still queued are never run.
ScreenGone ==
    /\ updates' = << >>
    /\ statusBar' = ""
    /\ infoBar' = ""

\* handleInput, q / Ctrl+C: a.Stop() cancels the context and stops the tview
\* application; Run returns to main.
UIQuitKey ==
    /\ UIIdle
    /\ ctxCancelled' = TRUE
    /\ uiPc' = "stopped"
    /\ proc' = "stopped"
    /\ ScreenGone
    /\ UNCHANGED <<session, lateCall, containers, sortField, sortAsc>>
    /\ UNCHANGED <<queueBlocks, appReady, mu, rpc, drawFor, drawSeen>>
    /\ UNCHANGED <<teaVars, collectVars>>
    /\ History({}, FALSE)

\* main, lines 105-108: SIGINT / SIGTERM; the signal goroutine calls
\* app.Stop(): a.cancel(), then a.app.Stop(), which is a nil dereference
\* while Run has not set a.app.  The event loop ends once its current handler
\* is over.
SignalStop ==
    /\ session = "app" /\ proc \in {"init", "running"}
    /\ uiPc \in {"off", "idle"}
    /\ ctxCancelled' = TRUE
    /\ IF appReady
       THEN uiPc' = "stopped" /\ proc' = "stopped" /\ ScreenGone
       ELSE /\ uiPc' = uiPc /\ proc' = "panic"
            /\ UNCHANGED <<updates, statusBar, infoBar>>
    /\ UNCHANGED <<session, lateCall, containers, sortField, sortAsc>>
    /\ UNCHANGED <<queueBlocks, appReady, mu, rpc, drawFor, drawSeen>>
    /\ UNCHANGED <<teaVars, collectVars>>
    /\ History({}, FALSE)

\* main, line 90: defer client.Close() runs when main returns.
ClientClose ==
    /\ session \in {"tea", "app"} /\ proc = "stopped"
    /\ proc' = "closed"
    /\ UNCHANGED <<session, lateCall, containers, sortField, sortAsc>>
    /\ UNCHANGED <<teaVars, collectVars, appVars>>

\* main returns: the process ends and takes its goroutines, timers and
\* queues with it.
ProcessExit ==
    /\ session \in {"tea", "app"} /\ proc = "closed"
    /\ proc' = "exited"
    /\ fetches' = << >>
    /\ ticks' = 0
    /\ rpc' = [g \in Refreshers |-> "exited"]
    /\ updates' = << >>
    /\ mu' = [w |-> "none", r |-> FALSE]
    /\ UNCHANGED <<session, lateCall, containers, sortField, sortAsc>>
    /\ UNCHANGED <<info, width, height, scroll, selected, err, quitting>>
    /\ UNCHANGED <<queueBlocks, appReady, ctxCancelled, uiPc, drawFor, drawSeen,
                   statusBar, infoBar>>
    /\ UNCHANGED collectVars
    /\ History({}, FALSE)

\* runSimpleMode, lines 643-649: the model bubbletea starts with.
TeaModelInit ==
    /\ info = "nil"
    /\ width = 0
    /\ height = 0
    /\ scroll = 0
    /\ selected = 0
    /\ err = "nil"
    /\ quitting = FALSE
    /\ ticks = 0
    /\ fetches = << >>

\* main: one of the two sessions runs.  Which tview the build links decides
\* whether QueueUpdateDraw waits for the queued function.
SessionInit ==
    /\ session \in {"tea", "app"}
    /\ proc = "init"
    /\ lateCall = FALSE
    /\ containers = << >>
    /\ sortField = SortByCPU
    /\ sortAsc = FALSE
    /\ TeaModelInit
    /\ AppModelInit
    /\ queueBlocks \in (IF session = "app" THEN BOOLEAN ELSE {FALSE})
    /\ recording = FALSE
    /\ CollectInit /\ ctxDone = FALSE
    /\ NoDecode

SessionNext ==
    \/ TeaInit
    \/ TeaWindowSize
    \/ \E key \in SortKeys : TeaSortKey(key)
    \/ \E key \in NavKeys : TeaNavKey(key)
    \/ TeaRefreshKey
    \/ TeaTick
    \/ FetchCollectReturn
    \/ \E failed \in BOOLEAN : TeaContainerMsg(failed)
    \/ FetchAbandoned
    \/ TeaQuit
    \/ AppRun
    \/ LoopRefresh
    \/ LoopStart
    \/ LoopExit
    \/ \E g \in Refreshers, ok \in BOOLEAN : RefreshInfoReturn(g, ok)
    \/ \E g \in Refreshers, failed \in BOOLEAN : RefreshCollectReturn(g, failed)
    \/ \E g \in Refreshers : RefreshUpdateTable(g)
    \/ \E g \in Refreshers : RefreshLockAssign(g)
    \/ \E g \in Refreshers : RefreshSortUnlock(g)
    \/ UIRefreshKey
    \/ \E field \in AppSortFields : UISortKey(field)
    \/ UISortQueue
    \/ UIRunTextUpdate
    \/ UIDrawBegin
    \/ UIDrawEnd
    \/ UIQuitKey
    \/ SignalStop
    \/ ClientClose
    \/ ProcessExit

SpecSession == SessionInit /\ [][SessionNext]_vars

\* -------------------------------------------------- claims on the sessions

\* s is in the order of (field, ascending): no entry has to come before the
\* one in front of it.
IsSortedBy(s, field, ascending) ==
    \A i \in 1..(Len(s) - 1) :
        IF ascending
        THEN ~FieldLess(s[i + 1], s[i], field)
        ELSE ~FieldLess(s[i], s[i + 1], field)

\* The GetContainerStats calls under way.
CollectsInFlight ==
    IF session = "tea"
    THEN Cardinality({i \in 1..Len(fetches) : fetches[i] = "collect"})
    ELSE Cardinality({g \in Refreshers : rpc[g] = "collect"})

\* The refresh cycles (tea commands, refresh calls) that have not returned.
CyclesInFlight ==
    IF session = "tea"
    THEN Len(fetches)
    ELSE Cardinality({g \in Refreshers :
                         rpc[g] \notin {"off", "sleep", "start", "select", "exited"}})

\* The tick scheduler still runs: a tea.Tick timer is pending, or
\* refreshLoop's ticker has not been stopped (by its deferred ticker.Stop()).
TickerRuns == ticks > 0

\* C1: when the list call of a cycle fails, handling the cycle's result leaves
\* the containers, the selected index and the scroll offset as they were and
\* sets an error flag, in statsModel.Update (containerMsg with an error) and
\* in ui.App.refresh.
C1_ListFailureKeepsView ==
    [][ /\ TeaContainerMsg(TRUE) =>
             /\ containers' = containers
             /\ selected' = selected
             /\ scroll' = scroll
             /\ err' # "nil"
        /\ \A g \in Refreshers :
             RefreshCollectReturn(g, TRUE) =>
                 /\ containers' = containers
                 /\ updates' # << >>
                 /\ updates'[Len(updates')].kind = "error"
      ]_vars

\* C6: in ui.App a table redraw reads the whole set, sorted by the current
\* field and direction, and nothing writes it meanwhile; a refresh between
\* its assignment and its sort holds the mutex for writing, and the mutex is
\* never held for writing and reading at once; as long as the process lives.
C6_RedrawSeesWholeSortedSet ==
    AppAlive =>
        /\ uiPc = "draw" =>
               /\ mu.r /\ mu.w = "none"
               /\ drawSeen = containers
               /\ IsSortedBy(drawSeen, sortField, sortAsc)
        /\ \A g \in Refreshers : rpc[g] = "sort" <=> mu.w = g
        /\ mu.w # "none" => ~mu.r
        /\ mu.w = "none" => IsSortedBy(containers, sortField, sortAsc)

\* A redraw of two containers or more is under way while a refresh waits to
\* write its result.
C6_Witness ==
    /\ session = "app" /\ uiPc = "draw"
    /\ Len(drawSeen) >= 2
    /\ \E g \in Refreshers : rpc[g] = "lock"

\* C7: at most one GetContainerStats call is in flight at any time.
C7_OneCollectInFlight == CollectsInFlight <= 1

\* C8: once main has closed the client, every refresh cycle has returned, the
\* tick scheduler has stopped, and no runtime call is issued on the client.
C8_CloseAfterCollectsReturn ==
    /\ proc = "closed" => CyclesInFlight = 0 /\ ~TickerRuns
    /\ ~lateCall

\* C9: in every state of a running session the containers are in the order of
\* the current sort field and direction (a refresh of ui.App that holds the
\* mutex between its assignment and its sort aside).
C9_SnapshotOrdered ==
    (proc = "running" /\ mu.w = "none") =>
        IsSortedBy(containers, sortField, sortAsc)

\* The fields of the claim: CPU, memory, block I/O, image size.
NumericFields == {SortByCPU, SortByMemory, SortByBlockIO, SortByImageSize}

\* What a sort command for field does: the current field keeps the field and
\* flips the direction; another field is set, descending if it is numeric.
Toggles(field) ==
    IF sortField = field
    THEN sortField' = field /\ sortAsc' = ~sortAsc
    ELSE sortField' = field /\ (field \in NumericFields => sortAsc' = FALSE)

\* C10: a sort command for the current field flips the direction and keeps
\* the field; a sort command for another numeric field sets that field and
\* the descending direction, whatever the direction was; for the sort keys of
\* statsModel.Update and for ui.App.setSortField.
C10_SortCommandToggles ==
    [][ /\ \A key \in SortKeys : TeaSortKey(key) => Toggles(SortKeyField(key))
        /\ \A field \in AppSortFields : UISortKey(field) => Toggles(field)
      ]_vars

\* Memory ascending: the field was set (descending) from CPU, name or another
\* field, then its own command flipped the direction.
C10_Witness ==
    /\ session = "tea"
    /\ sortField = SortByMemory /\ sortAsc = TRUE

\* C11: a sort-by-name command issued while another field is current sets the
\* field to name and the direction to ascending, for the key n of
\* statsModel.Update and for ui.App.setSortField(SortByName).
C11_NameDefaultsAscending ==
    [][ /\ (TeaSortKey("n") /\ sortField # SortByName) =>
               sortField' = SortByName /\ sortAsc' = TRUE
        /\ (UISortKey(SortByName) /\ sortField # SortByName) =>
               sortField' = SortByName /\ sortAsc' = TRUE
      ]_vars

\* a and b hold the same entries, whatever their order.
SameEntries(a, b) ==
    /\ Len(a) = Len(b)
    /\ {a[i] : i \in 1..Len(a)} = {b[i] : i \in 1..Len(b)}

\* Three containers whose CPU figures are 5%, 50% and 90%, in the order the
\* collector happens to return them.
ScenarioA ==
    LET e(p) == [ZeroStats EXCEPT !.CPUPercent = p]
        figures == <<5, 50, 90>>
    IN  {[i \in 1..3 |-> e(figures[f[i]])] : f \in Injections(3)}

CPUsOf(s) == [i \in 1..Len(s) |-> s[i].CPUPercent]

\* C12: a successful commit leaves exactly the entries of the collect that is
\* committed (a whole result, nothing of the previous set) in the order of
\* the field and direction in force, in statsModel.Update and in
\* ui.App.refresh; with CPU descending, 5%, 50% and 90% come out 90, 50, 5.
C12_CommitReplacesAndSorts ==
    [][ /\ TeaContainerMsg(FALSE) =>
               /\ containers' \in SnapshotSets
               /\ IsSortedBy(containers', sortField, sortAsc)
        /\ \A g \in Refreshers :
               /\ RefreshLockAssign(g) => containers' \in SnapshotSets
               /\ RefreshSortUnlock(g) =>
                      /\ SameEntries(containers', containers)
                      /\ IsSortedBy(containers', sortField', sortAsc')
        /\ (TeaContainerMsg(FALSE) \/ \E g \in Refreshers : RefreshSortUnlock(g)) =>
               \A s \in ScenarioA :
                   CPUsOf(SortContainers(s, SortByCPU, FALSE)) = <<90, 50, 5>>
      ]_vars

\* The refresh loop has just committed two containers or more.
C12_Witness ==
    /\ session = "app"
    /\ Len(containers) >= 2
    /\ rpc["loop"] = "table"

\* C13: after statsModel.Update has handled a containerMsg that leaves n
\* containers, selected is in 0..n-1 (0 when n = 0) and scroll is in
\* 0..max(0, n - visibleRows) with visibleRows = max(1, height - 10),
\* whatever selected, scroll and height were.
C13_ClampOnCommit ==
    [][ \A failed \in BOOLEAN :
            TeaContainerMsg(failed) =>
                LET n == Len(containers')
                    rows == IF height - 10 < 1 THEN 1 ELSE height - 10
                    top == IF n - rows < 0 THEN 0 ELSE n - rows
                IN  /\ IF n = 0 THEN selected' = 0 ELSE selected' \in 0..(n - 1)
                    /\ scroll' \in 0..top
      ]_vars

\* A message that emptied the list has been handled: selected and scroll are
\* back at 0.
C13_Witness ==
    /\ session = "tea" /\ proc = "running"
    /\ info = "info" /\ containers = << >>
    /\ selected = 0 /\ scroll = 0
    /\ height > 0

\* C14: after any navigation command of statsModel (up, down, pgup, pgdown,
\* home, end) selected is within 0..count-1, and is 0 when there is no
\* container.
C14_NavKeepsSelectedInRange ==
    [][ \A key \in NavKeys :
            TeaNavKey(key) =>
                IF containers = << >>
                THEN selected' = 0
                ELSE selected' \in 0..(Len(containers) - 1)
      ]_vars

\* The new selection lies in the window of rows now on screen,
\* scroll .. scroll + visibleRows - 1, visibleRows = max(1, height - 10).
InWindow(sel) == scroll <= sel /\ sel < scroll + VisibleRows

\* C15: a navigation command (up, down, pgup, pgdown, home, end) leaves the
\* scroll offset as it is when the new selection is still inside the visible
\* window computed from the last known height.
C15_ScrollOnlyWhenOutside ==
    [][ \A key \in NavKeys :
            (TeaNavKey(key) /\ InWindow(selected')) => scroll' = scroll
      ]_vars

\* C16: a navigation command leaves the containers and their order, the sort
\* field and direction, the daemon summary and the error as they were, and
\* starts neither a fetch nor a tick.
C16_NavChangesViewStateOnly ==
    [][ \A key \in NavKeys :
            TeaNavKey(key) =>
                UNCHANGED <<containers, sortField, sortAsc, info, err,
                            fetches, ticks, width, height, quitting>>
      ]_vars

\* The second of two containers is selected: a down, pgdown or end key was
\* handled.
C16_Witness ==
    /\ session = "tea" /\ proc = "running"
    /\ Len(containers) = 2 /\ selected = 1

\* C17: the sort field and direction start as (CPU, descending) and only a
\* sort command changes them: ticks, refreshes, commits (successful or failed),
\* navigation and resizes leave them as they are.
C17_SortSpecOnlyBySortCommand ==
    [][ /\ proc = "init" => (sortField = SortByCPU /\ sortAsc = FALSE)
        /\ (sortField' # sortField \/ sortAsc' # sortAsc) =>
               \/ \E key \in SortKeys : TeaSortKey(key)
               \/ \E field \in AppSortFields : UISortKey(field)
      ]_vars

\* ui.App has just committed a refresh while sorted by memory, ascending.
C17_Witness ==
    /\ session = "app"
    /\ sortField = SortByMemory /\ sortAsc = TRUE
    /\ containers # << >>
    /\ \E g \in Refreshers : rpc[g] = "table"

\* The screen of statsModel tells an error from no error.
TeaErrorShown == View(statsModel) # View([statsModel EXCEPT !.err = "nil"])

\* C18: once a cycle whose list call failed has been handled, the view shows
\* an error: statsModel.View (with a window size known) shows m.err; ui.App
\* queues the status bar's error text, which the event loop then sets.
C18_ListFailureIsShown ==
    [][ /\ (TeaContainerMsg(TRUE) /\ width > 0) => TeaErrorShown'
        /\ \A g \in Refreshers :
               RefreshCollectReturn(g, TRUE) =>
                   /\ updates' # << >>
                   /\ updates'[Len(updates')].kind = "error"
        /\ (UIRunTextUpdate /\ Head(updates).kind = "error") =>
               statusBar' = "error"
      ]_vars

\* C19: a successful cycle that follows a failed one clears the error:
\* statsModel.Update sets m.err to nil; in ui.App, once the table update of a
\* refresh's commit has been drawn, with no other refresh under way and no
\* update left in the queue, the status bar does not show the error text.
C19_ErrorClearedOnSuccess ==
    [][ /\ TeaContainerMsg(FALSE) => err' = "nil"
        /\ ( /\ UIDrawEnd
             /\ drawFor \in Refreshers
             /\ updates = << >>
             /\ \A g \in Refreshers \ {drawFor} :
                    rpc[g] \in {"off", "sleep", "start", "select", "exited"} ) =>
               statusBar' # "error"
      ]_vars

\* C20 as stated: from the start of a session until it quits exactly one
\* tick timer is pending.
C20_OneTimerFromStartToQuit ==
    proc = "running" => ticks = 1

\* C20: there is never more than one tick timer.  statsModel has exactly
\* one from Init until it quits.  ui.App has none while Run sleeps and
\* makes its first refresh, and exactly one from the moment refreshLoop
\* creates its ticker until refreshLoop returns.  Handling a tick keeps
\* that one timer and starts one collect cycle; a manual refresh starts
\* one collect cycle and leaves the timer as it is.
C20_TimerPerSession ==
    /\ [](ticks \in {0, 1})
    /\ []((session = "tea" /\ proc = "running") => ticks = 1)
    /\ []((session = "app" /\ proc = "running") =>
             /\ rpc["loop"] \in {"off", "sleep", "start", "exited"} => ticks = 0
             /\ rpc["loop"] = "select" => ticks = 1)
    /\ [][ ( \/ TeaTick
             \/ TeaRefreshKey
             \/ UIRefreshKey
             \/ (LoopRefresh /\ rpc["loop"] = "select") ) =>
               /\ ticks' = ticks
               /\ CyclesInFlight' = CyclesInFlight + 1
         ]_vars

\* The ticker runs while the refresh it started and a manual refresh are
\* both collecting.
C20_Witness ==
    /\ session = "app" /\ proc = "running"
    /\ ticks = 1
    /\ rpc["loop"] = "collect" /\ rpc["manual"] = "collect"

\* C34: App.Stop never reads a.app before Run has set it: whenever the
\* signal goroutine calls Stop, the tview application exists, and the
\* process never ends in a nil dereference.
C34_StopAfterNewAppIsSafe ==
    session = "app" => proc # "panic"

\* C35: a sort command of ui.App completes: where QueueUpdateDraw returns
\* only once the event loop has run the queued function, the event loop is
\* never left waiting for the table update it has queued itself.
C35_SortCommandCompletes ==
    (session = "app" /\ queueBlocks) => uiPc # "wait"

\* C32: while statsModel holds containers, the selected row is inside the
\* visible window, scroll <= selected < scroll + visibleRows; visibleRows is
\* taken from the last window size as View takes it, max(1, height - 8),
\* which is never less than the max(1, height - 10) of Update.
C32_SelectedRowVisible ==
    (session = "tea" /\ containers # << >>) =>
        /\ scroll <= selected
        /\ selected < scroll + ViewVisibleRows

\* C33: in statsModel the scroll offset is never negative, and every index
\* at which View reads the containers is one of 0 .. len(containers) - 1.
C33_ViewReadsInRange ==
    session = "tea" =>
        /\ scroll >= 0
        /\ \A i \in ViewReads : 0 <= i /\ i <= Len(containers) - 1

\* View reads the second of two rows, the first scrolled away, after a
\* window size has been received.
C33_Witness ==
    /\ session = "tea" /\ proc = "running"
    /\ width > 0
    /\ Len(containers) = 2
    /\ scroll = 1
    /\ ViewReads = {1}

\* ------------------------------------------------- claims on the collector

ShortID(k) == SubSeq(FullID(k), 1, ShortIDLen)

Listed == 1..Len(listed)

\* The positions of container k's entry in the returned set.
EntriesOf(k) == { i \in 1..Len(result) : result[i].ID = ShortID(k) }

LiveFailed(k) ==
    outcome[k].stats = "fail" \/ (outcome[k].stats = "ok" /\ outcome[k].decode = "fail")

\* What container k's entry is, from the answers its own calls got.
IdentityOf(k) ==
    [BaseStats(listed[k]) EXCEPT
        !.ImageSize = IF outcome[k].image = "ok" THEN ImageSizeOf(k) ELSE 0,
        !.CPULimit = IF outcome[k].inspect = "ok"
                     THEN CPULimitOf(HostConfigOf(k)) ELSE NoLimit]

EntryOf(k) ==
    IF listed[k].State = "running" /\ outcome[k].stats = "ok" /\ outcome[k].decode = "ok"
    THEN WithLiveStats(IdentityOf(k), PayloadOf(k))
    ELSE IdentityOf(k)

LiveMetricsZero(e) ==
    /\ e.CPUPercent = 0 /\ e.MemPercent = 0 /\ e.PIDs = 0
    /\ e.MemUsage = 0 /\ e.MemLimit = 0
    /\ e.NetRx = 0 /\ e.NetTx = 0
    /\ e.BlockRead = 0 /\ e.BlockWrite = 0

\* C2: when the list call succeeds with N containers, GetContainerStats
\* returns a nil error and exactly N entries, one per listed container,
\* whatever the image-inspect, container-inspect, stats and decode calls of
\* any task answered (cancellation included); each entry depends only on the
\* answers of its own container's calls.
C2_OneEntryPerContainer ==
    (gPc = "returned" /\ listAns = "ok") =>
        /\ retErr = "nil"
        /\ Len(result) = Len(listed)
        /\ \A k \in Listed :
             /\ Cardinality(EntriesOf(k)) = 1
             /\ \A i \in EntriesOf(k) : result[i] = EntryOf(k)

\* A call returned two entries although calls of both tasks failed.
C2_Witness ==
    /\ gPc = "returned" /\ listAns = "ok"
    /\ Len(listed) = 2 /\ Len(result) = 2
    /\ outcome[1].image = "fail" /\ outcome[1].stats = "fail"
    /\ outcome[2].inspect = "fail" /\ outcome[2].decode = "fail"
    /\ ctxDone

\* C3: a running container whose stats call (or the decoding) failed is in
\* the returned set with CPUPercent, MemPercent, PIDs and every byte counter
\* 0, and with Name, State, Image from the list entry and ImageSize, CPULimit
\* from the inspect calls that succeeded.
C3_DegradedEntry ==
    gPc = "returned" =>
        \A k \in Listed :
            (listed[k].State = "running" /\ LiveFailed(k)) =>
                /\ EntriesOf(k) # {}
                /\ \A i \in EntriesOf(k) :
                     /\ LiveMetricsZero(result[i])
                     /\ result[i].Name = trimContainerName(listed[k].Names)
                     /\ result[i].State = listed[k].State
                     /\ result[i].Image = listed[k].Image
                     /\ result[i].ImageSize =
                          (IF outcome[k].image = "ok" THEN ImageSizeOf(k) ELSE 0)
                     /\ result[i].CPULimit =
                          (IF outcome[k].inspect = "ok"
                           THEN CPULimitOf(HostConfigOf(k)) ELSE NoLimit)

\* The stats call of a running container failed after both inspect calls
\* succeeded, and the call returned.
C3_Witness ==
    /\ gPc = "returned"
    /\ \E k \in Listed :
         /\ listed[k].State = "running"
         /\ outcome[k].image = "ok" /\ outcome[k].inspect = "ok"
         /\ outcome[k].stats = "fail"
         /\ \E i \in EntriesOf(k) : result[i].ImageSize > 0 /\ result[i].CPULimit # NoLimit

\* C4: for a listed container that is not running the task never issues the
\* stats call, and its entry has the identity fields and all live metrics 0.
C4_NoStatsCallUnlessRunning ==
    \A k \in Listed :
        listed[k].State # "running" =>
            /\ calls.stats[k] = 0
            /\ task[k].pc \notin {"stats"}
            /\ gPc = "returned" =>
                 /\ EntriesOf(k) # {}
                 /\ \A i \in EntriesOf(k) :
                      /\ LiveMetricsZero(result[i])
                      /\ result[i] = IdentityOf(k)

\* A call returned the entry of an exited container next to a running one
\* whose stats were fetched.
C4_Witness ==
    /\ gPc = "returned"
    /\ \E k, j \in Listed :
         /\ listed[k].State = "exited" /\ EntriesOf(k) # {}
         /\ listed[j].State = "running" /\ calls.stats[j] = 1

\* C37: within one GetContainerStats call no runtime call is issued a second
\* time, whatever fails: the list call is issued once; for each listed
\* container ImageInspect and ContainerInspect are issued once each and
\* ContainerStats at most once; nothing is issued for a container that was
\* not listed.
C37_NoRetryWithinCollect ==
    /\ calls.list <= 1
    /\ gPc # "idle" => calls.list = 1
    /\ \A k \in Tasks :
         /\ calls.image[k] <= 1 /\ calls.inspect[k] <= 1 /\ calls.stats[k] <= 1
         /\ k \notin Listed =>
                calls.image[k] = 0 /\ calls.inspect[k] = 0 /\ calls.stats[k] = 0
    /\ gPc = "returned" =>
         \A k \in Listed :
            /\ calls.image[k] = 1
            /\ calls.inspect[k] = 1
            /\ calls.stats[k] <= 1

\* A call has returned after an ImageInspect, a ContainerInspect and a
\* ContainerStats of one container had all failed, each issued once.
C37_Witness ==
    /\ gPc = "returned"
    /\ \E k \in Listed :
         /\ outcome[k].image = "fail" /\ outcome[k].inspect = "fail"
         /\ outcome[k].stats = "fail"
         /\ calls.image[k] = 1 /\ calls.inspect[k] = 1 /\ calls.stats[k] = 1

\* C5: when GetContainerStats returns, every task it launched has finished:
\* none is still running, blocked on a send, or about to issue a runtime call.
C5_ForkJoinBarrier ==
    gPc = "returned" =>
        /\ wg = 0
        /\ \A k \in Tasks : task[k].pc \in {"none", "done"}
        /\ \A k \in Listed : task[k].pc = "done"

\* A call that launched two tasks returned.
C5_Witness ==
    /\ gPc = "returned"
    /\ Len(listed) = 2
    /\ \A k \in Listed : task[k].pc = "done"

\* ---------------------------------------------------------- specifications

CollectNext ==
    \/ CancelContext
    \/ ListContainers
    \/ SpawnTask
    \/ SpawnDone
    \/ WaitGroupWait
    \/ CollectResults
    \/ \E k \in Tasks : TaskStart(k)
    \/ \E k \in Tasks : ImageInspectReturn(k)
    \/ \E k \in Tasks : ContainerInspectReturn(k)
    \/ \E k \in Tasks : ContainerStatsReturn(k)
    \/ \E k \in Tasks : TaskSend(k)
    \/ \E k \in Tasks : TaskDone(k)

\* Only the collector runs: no session.
NoSession ==
    /\ session = "none"
    /\ proc = "init"
    /\ lateCall = FALSE
    /\ containers = << >>
    /\ sortField = SortByCPU
    /\ sortAsc = FALSE
    /\ TeaModelInit
    /\ AppModelInit
    /\ queueBlocks = FALSE
    /\ recording = FALSE

\* A caller hands GetContainerStats a context that is still live or
\* already cancelled.
CollectOnlyInit == CollectInit /\ NoDecode /\ NoSession

SpecCollect == CollectOnlyInit /\ [][CollectNext]_vars

\* The steps of the caller and of the tasks; cancelling the context is
\* the caller's environment.
CollectProgress ==
    \/ ListContainers
    \/ SpawnTask
    \/ SpawnDone
    \/ WaitGroupWait
    \/ CollectResults
    \/ \E k \in Tasks : TaskStart(k)
    \/ \E k \in Tasks : ImageInspectReturn(k)
    \/ \E k \in Tasks : ContainerInspectReturn(k)
    \/ \E k \in Tasks : ContainerStatsReturn(k)
    \/ \E k \in Tasks : TaskSend(k)
    \/ \E k \in Tasks : TaskDone(k)

\* While some goroutine can take its next step, one of them does (the Go
\* scheduler leaves no runnable goroutine waiting for ever), and every
\* runtime call returns; the context may be cancelled or not.
CollectFairness == WF_vars(CollectProgress)

SpecCollectLive == CollectOnlyInit /\ [][CollectNext]_vars /\ CollectFairness

\* C30: GetContainerStats returns in the end, whatever number of containers
\* is listed; a task that has its result never waits for ever to send it,
\* because no channel ever holds more than its capacity of one message per
\* listed container.
C30_CollectTerminates ==
    /\ <>(gPc = "returned")
    /\ \A k \in Tasks : (task[k].pc = "send") ~> (task[k].pc \in {"exit", "done"})
    /\ [](Len(statsChan) + Len(errChan) <= Len(listed))

\* The call has returned the entries of as many containers as the bound
\* allows, every task having sent its result and ended.
C30_Witness ==
    /\ gPc = "returned"
    /\ retErr = "nil"
    /\ Len(listed) = MaxContainers
    /\ Len(result) = MaxContainers
    /\ \A k \in Tasks : task[k].pc = "done"

\* -------------------------------------------------------- the sorter alone

\* The longest slice handed to SortContainers.
MaxSortLen == 3

\* Entries to sort.  Under every field two of them have the same key: w and
\* w2 the name, w and x the CPU figure and the rx+tx sum (from different
\* parts), x and y the memory figure, w and y the read+write sum, w and w2
\* the image size.
SortPool ==
    LET e(name, cpu, mem, rx, tx, rd, wr, img) ==
            [ZeroStats EXCEPT !.Name = name, !.CPUPercent = cpu, !.MemPercent = mem,
                              !.NetRx = rx, !.NetTx = tx,
                              !.BlockRead = rd, !.BlockWrite = wr, !.ImageSize = img]
    IN  { e(<<119>>, 10, 30, 1, 2, 0, 5, 100),
          e(<<120>>, 10, 20, 2, 1, 7, 0, 300),
          e(<<121>>, 50, 20, 0, 0, 5, 0, 200),
          e(<<119>>, 0, 0, 9, 0, 1, 0, 100) }

\* The slices a caller can hand over: any entries of the pool, in any order.
SortInputs ==
    { s \in UNION { [1..n -> SortPool] : n \in 0..MaxSortLen } :
        \A i, j \in 1..Len(s) : s[i] = s[j] => i = j }

SortFields ==
    {SortByName, SortByCPU, SortByMemory, SortByNetIO, SortByBlockIO, SortByImageSize}

\* A caller holds a slice (as TestSortContainers does).
SortInit ==
    /\ CollectInit /\ ctxDone = FALSE
    /\ NoDecode
    /\ session = "none"
    /\ proc = "init"
    /\ lateCall = FALSE
    /\ containers \in SortInputs
    /\ sortField = SortByCPU
    /\ sortAsc = FALSE
    /\ TeaModelInit
    /\ AppModelInit
    /\ queueBlocks = FALSE
    /\ recording = FALSE

\* SortContainers(containers, field, ascending): the slice is sorted in
\* place.
SortCall(field, ascending) ==
    /\ containers' = SortContainers(containers, field, ascending)
    /\ sortField' = field
    /\ sortAsc' = ascending
    /\ UNCHANGED <<session, proc, lateCall>>
    /\ UNCHANGED <<collectVars, teaVars, appVars>>

SortNext == \E field \in SortFields, ascending \in BOOLEAN : SortCall(field, ascending)

SpecSort == SortInit /\ [][SortNext]_vars

\* C21: a second SortContainers call with the same field and direction
\* leaves the order of the first call as it is, equal keys included.
C21_SortIdempotent ==
    [][ \A field \in SortFields, ascending \in BOOLEAN :
            SortCall(field, ascending) =>
                SortContainers(containers', field, ascending) = containers'
      ]_vars

\* The key SortContainers compares under a field.
SortKey(e, field) ==
    CASE field = SortByCPU -> e.CPUPercent
      [] field = SortByMemory -> e.MemPercent
      [] field = SortByNetIO -> e.NetRx + e.NetTx
      [] field = SortByBlockIO -> e.BlockRead + e.BlockWrite
      [] field = SortByImageSize -> e.ImageSize
      [] OTHER -> e.Name

KeyLess(a, b, field) ==
    IF field = SortByName
    THEN StrLess(SortKey(a, field), SortKey(b, field))
    ELSE SortKey(a, field) < SortKey(b, field)

DistinctKeys(s, field) ==
    \A i, j \in 1..Len(s) : SortKey(s[i], field) = SortKey(s[j], field) => i = j

Reverse(s) == [i \in 1..Len(s) |-> s[Len(s) + 1 - i]]

Reorderings(s) == { [i \in 1..Len(s) |-> s[f[i]]] : f \in Injections(Len(s)) }

\* C22: on a slice whose keys under the field are pairwise distinct, an
\* ascending call leaves the entries in strictly increasing key order, a
\* descending call leaves exactly the reverse of that, and the result is
\* the same for every order the entries came in.
C22_DistinctKeysSorted ==
    [][ \A field \in SortFields, ascending \in BOOLEAN :
            (SortCall(field, ascending) /\ DistinctKeys(containers, field)) =>
                LET up == SortContainers(containers, field, TRUE)
                IN  /\ \A i \in 1..(Len(up) - 1) : KeyLess(up[i], up[i + 1], field)
                    /\ containers' = IF ascending THEN up ELSE Reverse(up)
                    /\ \A t \in Reorderings(containers) :
                           SortContainers(t, field, ascending) = containers'
      ]_vars

\* A descending call has just sorted three entries with distinct keys that
\* came in another order.
C22_Witness ==
    /\ session = "none"
    /\ Len(containers) = 3
    /\ ~sortAsc
    /\ sortField = SortByBlockIO
    /\ DistinctKeys(containers, sortField)
    /\ \A i \in 1..2 : KeyLess(containers[i + 1], containers[i], sortField)

\* C24: SortContainers only reorders: the slice it leaves holds exactly the
\* entries it was given, each as often as before and with every field as it
\* was.
C24_SortIsPermutation ==
    [][ \A field \in SortFields, ascending \in BOOLEAN :
            SortCall(field, ascending) =>
                /\ Len(containers') = Len(containers)
                /\ \A e \in SortPool :
                       Cardinality({i \in 1..Len(containers') : containers'[i] = e})
                         = Cardinality({i \in 1..Len(containers) : containers[i] = e})
                /\ \A i \in 1..Len(containers') : containers'[i] \in SortPool
      ]_vars

\* An ascending call by image size has just ordered three entries.
C24_Witness ==
    /\ session = "none"
    /\ Len(containers) = 3
    /\ sortField = SortByImageSize /\ sortAsc
    /\ containers[1].ImageSize = 100 /\ containers[3].ImageSize = 300

\* C23: in a descending call the comparator puts a before b exactly when the
\* ascending comparator puts b before a, for every two entries of the slice;
\* so it puts no entry before itself and no two entries before each other,
\* equal keys included.
C23_DescendingIsAscendingReversed ==
    [][ \A field \in SortFields :
            SortCall(field, FALSE) =>
                \A i, j \in 1..Len(containers) :
                    /\ SortLess(containers[i], containers[j], field, FALSE)
                         = SortLess(containers[j], containers[i], field, TRUE)
                    /\ ~SortLess(containers[i], containers[i], field, FALSE)
                    /\ ~( /\ SortLess(containers[i], containers[j], field, FALSE)
                          /\ SortLess(containers[j], containers[i], field, FALSE) )
      ]_vars

\* C36: the row order SortContainers leaves under a sort field and direction
\* depends on the entries alone, not on the order they arrived in from the
\* tasks: every other arrival order of the same entries gives the same rows,
\* equal keys included.
C36_RowOrderDeterministic ==
    [][ \A field \in SortFields, ascending \in BOOLEAN :
            SortCall(field, ascending) =>
                \A t \in Reorderings(containers) :
                    SortContainers(t, field, ascending) = containers'
      ]_vars

\* ---------------------------------------------------- the derivation alone

\* The most io_service_bytes_recursive entries of a payload.
MaxBlkEntries == 2

\* The op tags a daemon may send.
OpTags == {"read", "Read", "READ", "write", "Write", "WRITE", "sync"}

BlkEntries == { [Op |-> op, Value |-> v] : op \in OpTags, v \in {3, 8} }

\* Payloads that differ in the CPU counters (cumulative: a restart or a
\* first sample puts the current value below the previous one), in the
\* memory figures, or in the block I/O entries.
CPUPayloads ==
    { [ZeroStatsJSON EXCEPT !.TotalUsage = tu, !.PreTotalUsage = ptu,
                            !.SystemUsage = su, !.PreSystemUsage = psu,
                            !.OnlineCPUs = on, !.PercpuLen = per] :
        tu \in {0, 100, 300}, ptu \in {0, 100, 300},
        su \in {0, 600, 1000}, psu \in {0, 600, 1000},
        on \in {0, 2}, per \in {0, 4} }

MemPayloads ==
    { [ZeroStatsJSON EXCEPT !.MemUsage = u, !.MemLimit = l] :
        u \in {0, 1, 1024, 3000}, l \in {0, 1024, 2048} }

BlkPayloads ==
    { [ZeroStatsJSON EXCEPT !.Blkio = b] :
        b \in UNION { [1..n -> BlkEntries] : n \in 0..MaxBlkEntries } }

StatsPayloads == CPUPayloads \cup MemPayloads \cup BlkPayloads

\* The host configurations of an inspected container: a quota of -1 is the
\* daemon's "no quota".
HostConfigs ==
    { [NanoCPUs |-> n, CPUQuota |-> q, CPUPeriod |-> p] :
        n \in {0, 500000000, 1500000000},
        q \in {-1, 0, 1000, 4000},
        p \in {0, 2000} }

\* What ContainerInspect can answer: on an error the answer's value is the
\* zero value.
InspectAnswers ==
    { [err |-> FALSE, HostConfig |-> hc] : hc \in HostConfigs }
      \cup { [err |-> TRUE, HostConfig |-> ZeroHostConfig] }

\* getContainerStats of a running container, about to read the inspect
\* answer (line 203); the payload is the one it will decode (line 228).
\* Either the inspect answer or the payload is varied.
DeriveInit ==
    /\ CollectInit /\ ctxDone = FALSE
    /\ \/ statsJSON \in StatsPayloads /\ containerInfo = NoInspect
       \/ statsJSON = ZeroStatsJSON /\ containerInfo \in InspectAnswers
    /\ liveStats = ZeroStats
    /\ derivePc = "inspect"
    /\ NoSession

\* getContainerStats, lines 202-212: the CPU limit, when the inspect call
\* has not failed; the task goes on either way.
DeriveLimit ==
    /\ derivePc = "inspect"
    /\ derivePc' = "stats"
    /\ liveStats' = IF ~containerInfo.err
                    THEN [liveStats EXCEPT
                            !.CPULimit = CPULimitOf(containerInfo.HostConfig)]
                    ELSE liveStats
    /\ UNCHANGED <<gPc, listAns, listed, ctxDone, spawned, task, outcome, calls,
                   statsChan, errChan, chanClosed, wg, result, retErr, statsJSON,
                   containerInfo>>
    /\ UNCHANGED <<sessVars, teaVars, appVars>>

\* getContainerStats, lines 232-259.
DeriveStats ==
    /\ derivePc = "stats"
    /\ derivePc' = "done"
    /\ liveStats' = WithLiveStats(liveStats, statsJSON)
    /\ UNCHANGED <<gPc, listAns, listed, ctxDone, spawned, task, outcome, calls,
                   statsChan, errChan, chanClosed, wg, result, retErr, statsJSON,
                   containerInfo>>
    /\ UNCHANGED <<sessVars, teaVars, appVars>>

DeriveNext == DeriveLimit \/ DeriveStats

SpecDerive == DeriveInit /\ [][DeriveNext]_vars

\* C25: the CPU percentage is exactly 0 whenever the usage counter has not
\* moved or the system counter has not grown (current minus previous is 0
\* or negative), for every core count.
C25_CPUZeroGuard ==
    [][ ( /\ DeriveStats
          /\ \/ statsJSON.TotalUsage - statsJSON.PreTotalUsage = 0
             \/ statsJSON.SystemUsage - statsJSON.PreSystemUsage <= 0 ) =>
            liveStats'.CPUPercent = 0
      ]_vars

\* C26: the memory percentage is 0 whenever the limit is 0, whatever the
\* usage; with a limit above 0 it is usage / limit * 100 (here to within
\* the 1/U64 of the quotient's representation), and a usage of half the
\* limit gives 50.
C26_MemPercent ==
    [][ DeriveStats =>
            LET usage == statsJSON.MemUsage
                limit == statsJSON.MemLimit
                pct == liveStats'.MemPercent
            IN  /\ limit = 0 => pct = 0
                /\ limit > 0 =>
                       /\ pct * limit <= usage * 100 * U64
                       /\ usage * 100 * U64 < (pct + 100) * limit
                /\ (usage = 1024 /\ limit = 2048) => pct = 50 * U64
      ]_vars

\* The percentage of a usage above 0 with no limit has been derived.
C26_Witness ==
    /\ statsJSON.MemUsage = 3000 /\ statsJSON.MemLimit = 0
    /\ liveStats.MemUsage = 3000
    /\ liveStats.MemPercent = 0

\* An op tag in lower case (strings.ToLower on the tags a daemon sends).
ToLower(op) ==
    CASE op \in {"read", "Read", "READ"} -> "read"
      [] op \in {"write", "Write", "WRITE"} -> "write"
      [] OTHER -> op

RECURSIVE SumOp(_, _)
SumOp(entries, op) ==
    IF entries = << >> THEN 0
    ELSE (IF ToLower(Head(entries).Op) = op THEN Head(entries).Value ELSE 0)
         + SumOp(Tail(entries), op)

\* C27: BlockRead is the sum of the entries whose op tag is "read" in any
\* letter case, BlockWrite the sum of those whose tag is "write" in any
\* letter case; entries with another tag count for neither.
C27_BlockOpAnyCase ==
    [][ DeriveStats =>
            /\ liveStats'.BlockRead = SumOp(statsJSON.Blkio, "read")
            /\ liveStats'.BlockWrite = SumOp(statsJSON.Blkio, "write")
      ]_vars

\* C38: with the inspect call answered, the CPU limit is NanoCPUs / 10^9
\* when NanoCPUs > 0; otherwise CPUQuota / CPUPeriod when both are > 0;
\* otherwise 0.  With the inspect call failed the limit is 0, and the task
\* goes on to its next step.
C38_CPULimit ==
    [][ DeriveLimit =>
            LET hc == containerInfo.HostConfig
                lim == liveStats'.CPULimit
            IN  /\ lim[2] > 0
                /\ (~containerInfo.err /\ hc.NanoCPUs > 0) =>
                       lim = <<hc.NanoCPUs, 1000000000>>
                /\ (~containerInfo.err /\ hc.NanoCPUs <= 0
                       /\ hc.CPUQuota > 0 /\ hc.CPUPeriod > 0) =>
                       lim[1] * hc.CPUPeriod = hc.CPUQuota * lim[2]
                /\ (~containerInfo.err /\ hc.NanoCPUs <= 0
                       /\ ~(hc.CPUQuota > 0 /\ hc.CPUPeriod > 0)) =>
                       lim[1] = 0
                /\ containerInfo.err => lim[1] = 0
                /\ derivePc' = "stats"
      ]_vars

\* A limit of two cores has been derived from a quota of twice the period,
\* NanoCPUs being 0.
C38_Witness ==
    /\ derivePc = "stats"
    /\ ~containerInfo.err
    /\ containerInfo.HostConfig =
           [NanoCPUs |-> 0, CPUQuota |-> 4000, CPUPeriod |-> 2000]
    /\ liveStats.CPULimit[1] = 2 * liveStats.CPULimit[2]

\* The core count of the formula: the online-core count if it is not 0,
\* else the number of per-core entries if that is not 0, else 1.
Cores(p) ==
    CASE p.OnlineCPUs # 0 -> p.OnlineCPUs
      [] p.OnlineCPUs = 0 /\ p.PercpuLen # 0 -> p.PercpuLen
      [] OTHER -> 1

\* C39: with both counters grown (cpuDelta > 0 and sysDelta > 0), the CPU
\* percentage is (cpuDelta / sysDelta) * cores * 100 (here to within the
\* 1/U64 of the quotient's representation); it is never negative, and it
\* goes above 100 when the formula does.
C39_CPUPercentFormula ==
    [][ DeriveStats =>
            LET cpuDelta == statsJSON.TotalUsage - statsJSON.PreTotalUsage
                sysDelta == statsJSON.SystemUsage - statsJSON.PreSystemUsage
                cores == Cores(statsJSON)
                pct == liveStats'.CPUPercent
            IN  /\ pct >= 0
                /\ (cpuDelta > 0 /\ sysDelta > 0) =>
                       /\ pct * sysDelta <= cpuDelta * cores * 100 * U64
                       /\ cpuDelta * cores * 100 * U64
                             < (pct + cores * 100) * sysDelta
                       /\ (cpuDelta * cores > sysDelta) => pct > 100 * U64
      ]_vars

\* A percentage of 300 has been derived: three quarters of the system
\* delta on four per-core entries, the online-core count being 0.
C39_Witness ==
    /\ derivePc = "done"
    /\ statsJSON.TotalUsage - statsJSON.PreTotalUsage = 300
    /\ statsJSON.SystemUsage - statsJSON.PreSystemUsage = 400
    /\ statsJSON.OnlineCPUs = 0 /\ statsJSON.PercpuLen = 4
    /\ liveStats.CPUPercent = 300 * U64

\* ------------------------------------------------ the refreshes of ui.App

\* The tview session alone, with the record of its refreshes kept.
RefreshInit ==
    /\ session = "app"
    /\ proc = "init"
    /\ lateCall = FALSE
    /\ containers = << >>
    /\ sortField = SortByCPU
    /\ sortAsc = FALSE
    /\ TeaModelInit
    /\ AppModelInit
    /\ queueBlocks \in BOOLEAN
    /\ recording = TRUE
    /\ CollectInit /\ ctxDone = FALSE
    /\ NoDecode

RefreshNext ==
    \/ AppRun
    \/ LoopRefresh
    \/ LoopStart
    \/ LoopExit
    \/ \E g \in Refreshers, ok \in BOOLEAN : RefreshInfoReturn(g, ok)
    \/ \E g \in Refreshers, failed \in BOOLEAN : RefreshCollectReturn(g, failed)
    \/ \E g \in Refreshers : RefreshUpdateTable(g)
    \/ \E g \in Refreshers : RefreshLockAssign(g)
    \/ \E g \in Refreshers : RefreshSortUnlock(g)
    \/ UIRefreshKey
    \/ \E field \in AppSortFields : UISortKey(field)
    \/ UISortQueue
    \/ UIRunTextUpdate
    \/ UIDrawBegin
    \/ UIDrawEnd
    \/ UIQuitKey
    \/ SignalStop
    \/ ClientClose
    \/ ProcessExit

SpecRefresh == RefreshInit /\ [][RefreshNext]_vars

\* C28: a refresh whose GetDockerInfo call fails still calls
\* GetContainerStats at once, and when that refresh returns, no other
\* refresh having run and no summary having been written to the info bar in
\* the meantime, the bar shows none.
C28_FailedSummaryNotShown ==
    [][ \A g \in Refreshers :
            /\ RefreshInfoReturn(g, FALSE) => rpc'[g] = "collect"
            /\ ( /\ g \in noInfo
                 /\ proc' = "running"
                 /\ InRefresh(rpc, g) /\ ~InRefresh(rpc', g) ) =>
                   infoBar' # "info"
      ]_vars

\* C29: no refresh assigns a.containers after a refresh whose
\* GetContainerStats call began later has assigned it.
C29_NoOlderSnapshotCommitted ==
    [][ \A g \in Refreshers :
            RefreshLockAssign(g) => ~(race.first = g /\ race.overtaken)
      ]_vars

\* ------------------------------------- the sessions under fair scheduling

\* What statsModel's runtime does by itself: bubbletea starts the program,
\* a tea.Tick timer fires, a command's runtime calls return, the message of
\* a finished command is handled.  Keys and window sizes come when they
\* come.
TeaFairness ==
    /\ WF_vars(TeaInit)
    /\ WF_vars(TeaTick)
    /\ WF_vars(FetchCollectReturn)
    /\ WF_vars(\E failed \in BOOLEAN : TeaContainerMsg(failed))

\* What ui.App's runtime does by itself: Run starts, the ticker fires, the
\* runtime calls of a refresh return, a goroutine at a.mu.Lock() gets the
\* mutex when it is free again and again, a send on the update queue gets
\* its place likewise, and the event loop, which picks among the events
\* that are ready, gets to every queued update.  Keys and signals come
\* when they come.
AppFairness ==
    /\ WF_vars(AppRun)
    /\ WF_vars(LoopStart)
    /\ WF_vars(LoopRefresh)
    /\ \A g \in Refreshers :
         /\ WF_vars(\E ok \in BOOLEAN : RefreshInfoReturn(g, ok))
         /\ WF_vars(\E failed \in BOOLEAN : RefreshCollectReturn(g, failed))
         /\ SF_vars(RefreshLockAssign(g))
         /\ WF_vars(RefreshSortUnlock(g))
         /\ SF_vars(RefreshUpdateTable(g))
    /\ SF_vars(UISortQueue)
    /\ SF_vars(UIRunTextUpdate)
    /\ SF_vars(UIDrawBegin)
    /\ WF_vars(UIDrawEnd)

SessionFairness == TeaFairness /\ AppFairness

SpecSessionLive == SessionInit /\ [][SessionNext]_vars /\ SessionFairness

\* A cycle whose list call failed is handed over.
ListFails ==
    \/ TeaContainerMsg(TRUE)
    \/ \E g \in Refreshers : RefreshCollectReturn(g, TRUE)

\* A snapshot set is committed.
Commits ==
    \/ TeaContainerMsg(FALSE)
    \/ \E g \in Refreshers : RefreshLockAssign(g)

\* The committed set is put on the screen: bubbletea renders View after
\* every Update; tview's event loop runs the queued table update.
Displays ==
    \/ TeaContainerMsg(FALSE) /\ width > 0
    \/ UIDrawEnd

\* C31: a failed cycle does not stop the scheduler.  While the session runs
\* (statsModel with a window size received), if from some point on no list
\* call fails, then under fair scheduling snapshots keep being committed
\* and displayed: after every point there is a later commit and a later
\* display, hence those of a collect that started after the point.
C31_LaterSnapshotDisplayed ==
    ( /\ [](proc \in {"init", "running"})
      /\ <>[](session = "tea" => width > 0)
      /\ <>[][~ListFails]_vars )
        => ( []<><<Commits>>_vars /\ []<><<Displays>>_vars )

====
